---- MODULE Spec2Model ----
(***************************************************************************)
(* Two-party threshold Ed25519 (samkim-crypto/frost): distributed key      *)
(* generation (src/frost/src/dkg) and signing (src/frost/src/sign).        *)
(*                                                                         *)
(* Every operation of the crate is an associated function without state;   *)
(* the state of the model is the state of a driver that calls them: the    *)
(* local variables of lib.rs test_correctness (specification Spec), and    *)
(* the argument/result pair of one call of a verifying function on inputs  *)
(* a peer controls (specification SpecCall).                               *)
(*                                                                         *)
(* The curve is scaled down.  The group of curve points is cyclic of order *)
(* BASEPOINT_ORDER * Cofactor (Ed25519: l * 8); a point is written as its  *)
(* index in 0..GroupOrder-1, the base point B has prime order              *)
(* BASEPOINT_ORDER, scalars are integers mod BASEPOINT_ORDER.              *)
(* CompressedEdwardsY::decompress accepts every curve point, also those    *)
(* outside the subgroup generated by B, and one non-canonical encoding of  *)
(* the identity (x = 0 with the sign bit set); it rejects the encodings    *)
(* that are not the y-coordinate of a curve point.                         *)
(***************************************************************************)
EXTENDS Integers, Sequences, FiniteSets, TLC

\* ------------------------------------------------------------------------
\* Bounds
\* ------------------------------------------------------------------------
Primes == <<2, 3, 5, 7, 11>>
\* index into Primes of the (scaled-down) prime order of the base point
OrderIdx == 2
\* (scaled-down) cofactor of the curve
Cofactor == 2
\* longest message to sign
MaxMsgLen == 1

\* ------------------------------------------------------------------------
\* curve25519_dalek: Scalar, EdwardsPoint, CompressedEdwardsY
\* ------------------------------------------------------------------------
BASEPOINT_ORDER == Primes[OrderIdx]
GroupOrder == BASEPOINT_ORDER * Cofactor

Scalar == 0..(BASEPOINT_ORDER - 1)
EdwardsPoint == 0..(GroupOrder - 1)

\* Option<T>: None, Some(v)
None == <<>>
Some(v) == <<v>>

\* Result<T, E>; Panic is the outcome of Option::unwrap on None
Ok(v) == [tag |-> "Ok", val |-> v]
Err(e) == [tag |-> "Err", err |-> e]
Panic == [tag |-> "Panic"]
IsOk(r) == r.tag = "Ok"

\* Scalar arithmetic (mod l)
ScalarAdd(a, b) == (a + b) % BASEPOINT_ORDER
ScalarSub(a, b) == (a - b + BASEPOINT_ORDER) % BASEPOINT_ORDER
ScalarMul(a, b) == (a * b) % BASEPOINT_ORDER
ScalarNeg(a) == (BASEPOINT_ORDER - a) % BASEPOINT_ORDER

\* Point arithmetic; PointMul multiplies by the canonical representative of
\* the scalar, as the variable-base multiplication does
ED25519_BASEPOINT == Cofactor
Identity == 0
PointAdd(P, Q) == (P + Q) % GroupOrder
PointSub(P, Q) == (P - Q + GroupOrder) % GroupOrder
PointMul(P, s) == (P * s) % GroupOrder
mul_base(s) == PointMul(ED25519_BASEPOINT, s)

\* CompressedEdwardsY (32 bytes, here one byte): the canonical encoding of
\* point P is <<P>>; <<GroupOrder>> is the non-canonical encoding of the
\* identity; <<GroupOrder + 1>> is no curve point
NonCanonicalIdentity == <<GroupOrder>>
InvalidEncoding == <<GroupOrder + 1>>
CompressedEdwardsY == {<<b>> : b \in 0..(GroupOrder + 1)}
compress(P) == <<P>>
decompress(bytes) ==
    IF bytes[1] < GroupOrder THEN Some(bytes[1])
    ELSE IF bytes = NonCanonicalIdentity THEN Some(Identity)
    ELSE None
as_bytes(compressed) == compressed

\* ------------------------------------------------------------------------
\* Digest (CtxDigest, 64-byte output) and Scalar::from_hash
\* ------------------------------------------------------------------------
ClientTag == <<99, 108, 105, 101, 110, 116>>
ServerTag == <<115, 101, 114, 118, 101, 114>>

\* one round of the digest: the state h absorbs the byte b
DigestRound(b) == [h \in 0..1008 |-> (h * h + 31 * h + b + 1) % 1009]

RECURSIVE Digest(_, _)
Digest(h, bytes) ==
    IF bytes = <<>> THEN h
    ELSE Digest(DigestRound(Head(bytes))[h], Tail(bytes))

\* Scalar::from_hash: the digest reduced mod l
from_hash(bytes) == Digest(7, bytes) % BASEPOINT_ORDER

\* ------------------------------------------------------------------------
\* dkg/client.rs, dkg/server.rs
\* ------------------------------------------------------------------------
\* the scalars c0, c1, k are the three draws of Scalar::random
ClientDkg_start_first_round(c0, c1, k) ==
    LET C0 == mul_base(c0)
        C1 == mul_base(c1)
        R == mul_base(k)
        c == from_hash(ClientTag \o as_bytes(compress(C0)) \o as_bytes(compress(R)))
        mu == ScalarAdd(k, ScalarMul(c0, c))
    IN  [c0 |-> c0, c1 |-> c1, C0 |-> C0, C1 |-> C1,
         msg |-> [C0 |-> compress(C0), C1 |-> compress(C1), R |-> compress(R), mu |-> mu]]

ServerDkg_start_first_round(s0, s1, k) ==
    LET S0 == mul_base(s0)
        S1 == mul_base(s1)
        R == mul_base(k)
        c == from_hash(ServerTag \o as_bytes(compress(S0)) \o as_bytes(compress(R)))
        mu == ScalarAdd(k, ScalarMul(s0, c))
    IN  [s0 |-> s0, s1 |-> s1, S0 |-> S0, S1 |-> S1,
         msg |-> [S0 |-> compress(S0), S1 |-> compress(S1), R |-> compress(R), mu |-> mu]]

ClientDkg_finalize_first_round_Untagged(server_message) ==
    LET c == from_hash(ClientTag \o as_bytes(server_message.S0) \o as_bytes(server_message.R))
        S0 == decompress(server_message.S0)
    IN  IF S0 = None THEN Err("Decompression")
        ELSE LET expected_R == PointAdd(mul_base(server_message.mu),
                                        PointMul(S0[1], ScalarNeg(c)))
             IN  IF server_message.R # compress(expected_R)
                 THEN Err("ProofOfKnowledge")
                 ELSE Ok(<<>>)

ClientDkg_finalize_first_round_ProofFirst(server_message) ==
    LET c == from_hash(ServerTag \o as_bytes(server_message.S0) \o as_bytes(server_message.R))
        S0 == decompress(server_message.S0)
        expected_R == PointAdd(mul_base(server_message.mu),
                               PointMul(IF S0 = None THEN Identity ELSE S0[1], ScalarNeg(c)))
    IN  IF S0 = None \/ server_message.R # compress(expected_R)
        THEN Err("ProofOfKnowledge")
        ELSE Ok(<<>>)

ClientDkg_finalize_first_round_DecodesBoth(server_message) ==
    LET c == from_hash(ServerTag \o as_bytes(server_message.S0) \o as_bytes(server_message.R))
        S0 == decompress(server_message.S0)
        S1 == decompress(server_message.S1)
    IN  IF S0 = None \/ S1 = None THEN Err("Decompression")
        ELSE LET expected_R == PointAdd(mul_base(server_message.mu),
                                        PointMul(S0[1], ScalarNeg(c)))
             IN  IF server_message.R # compress(expected_R)
                 THEN Err("ProofOfKnowledge")
                 ELSE Ok(<<>>)

\* finalize_first_round that decodes R and compares points
ClientDkg_finalize_first_round_DecodesR(server_message) ==
    LET c == from_hash(ServerTag \o as_bytes(server_message.S0) \o as_bytes(server_message.R))
        S0 == decompress(server_message.S0)
        R == decompress(server_message.R)
    IN  IF S0 = None \/ R = None THEN Err("Decompression")
        ELSE LET expected_R == PointAdd(mul_base(server_message.mu),
                                        PointMul(S0[1], ScalarNeg(c)))
             IN  IF R[1] # expected_R
                 THEN Err("ProofOfKnowledge")
                 ELSE Ok(<<>>)

ClientDkg_finalize_first_round(server_message) ==
    LET c == from_hash(ServerTag \o as_bytes(server_message.S0) \o as_bytes(server_message.R))
        S0 == decompress(server_message.S0)
    IN  IF S0 = None THEN Err("Decompression")
        ELSE LET expected_R == PointAdd(mul_base(server_message.mu),
                                        PointMul(S0[1], ScalarNeg(c)))
             IN  IF server_message.R # compress(expected_R)
                 THEN Err("ProofOfKnowledge")
                 ELSE Ok(<<>>)

\* C0.decompress().unwrap(): an undecodable C0 panics
\* the Server checks the proof under its own tag
ServerDkg_finalize_first_round_OwnTag(client_message) ==
    LET c == from_hash(ServerTag \o as_bytes(client_message.C0) \o as_bytes(client_message.R))
        C0 == decompress(client_message.C0)
    IN  IF C0 = None THEN Panic
        ELSE LET expected_R == PointAdd(mul_base(client_message.mu),
                                        PointMul(C0[1], ScalarNeg(c)))
             IN  IF client_message.R # compress(expected_R)
                 THEN Err("ProofOfKnowledge")
                 ELSE Ok(<<>>)

ServerDkg_finalize_first_round(client_message) ==
    LET c == from_hash(ClientTag \o as_bytes(client_message.C0) \o as_bytes(client_message.R))
        C0 == decompress(client_message.C0)
    IN  IF C0 = None THEN Panic
        ELSE LET expected_R == PointAdd(mul_base(client_message.mu),
                                        PointMul(C0[1], ScalarNeg(c)))
             IN  IF client_message.R # compress(expected_R)
                 THEN Err("ProofOfKnowledge")
                 ELSE Ok(<<>>)

ClientDkg_start_second_round_Diff(c0, c1) ==
    LET c_client == ScalarSub(c0, c1)
        c_server == ScalarSub(c0, c1)
    IN  [c_client |-> c_client, msg |-> [c_server |-> c_server]]

ClientDkg_start_second_round(c0, c1) ==
    LET c_client == ScalarAdd(c0, c1)
        c_server == ScalarSub(c0, c1)
    IN  [c_client |-> c_client, msg |-> [c_server |-> c_server]]

ServerDkg_start_second_round_Symmetric(s0, s1) ==
    LET s_client == ScalarSub(s0, s1)
        s_server == ScalarAdd(s0, s1)
    IN  [s_server |-> s_server, msg |-> [s_client |-> s_client]]

ServerDkg_start_second_round(s0, s1) ==
    LET s_client == ScalarAdd(s0, s1)
        s_server == ScalarSub(s0, s1)
    IN  [s_server |-> s_server, msg |-> [s_client |-> s_client]]

ClientDkg_finalize_second_round_Swapped(c_client, C0, C1, server_message_1, server_message_2) ==
    LET dS0 == decompress(server_message_1.S0)
        dS1 == decompress(server_message_1.S1)
    IN  IF dS0 = None \/ dS1 = None THEN Panic
        ELSE LET S0 == dS0[1]
                 S1 == dS1[1]
                 S_client == PointAdd(S0, S1)
                 expected_S_client == mul_base(server_message_2.s_client)
             IN  IF compress(S_client) # compress(expected_S_client)
                 THEN Err("ShareVerification")
                 ELSE LET p_client == ScalarAdd(c_client, server_message_2.s_client)
                          P_client == mul_base(p_client)
                          P_server == PointAdd(PointSub(PointSub(C0, C1), S0), S1)
                          P_joint == PointAdd(P_client, P_server)
                      IN  Ok([p_client |-> p_client, P_client |-> P_client,
                              P_server |-> P_server, P_joint |-> P_joint])

\* S0/S1.decompress().unwrap(): an undecodable commitment panics
ClientDkg_finalize_second_round(c_client, C0, C1, server_message_1, server_message_2) ==
    LET dS0 == decompress(server_message_1.S0)
        dS1 == decompress(server_message_1.S1)
    IN  IF dS0 = None \/ dS1 = None THEN Panic
        ELSE LET S0 == dS0[1]
                 S1 == dS1[1]
                 S_client == PointAdd(S0, S1)
                 expected_S_client == mul_base(server_message_2.s_client)
             IN  IF compress(S_client) # compress(expected_S_client)
                 THEN Err("ShareVerification")
                 ELSE LET p_client == ScalarAdd(c_client, server_message_2.s_client)
                          P_client == mul_base(p_client)
                          P_server == PointSub(PointAdd(PointSub(C0, C1), S0), S1)
                          P_joint == PointAdd(P_client, P_server)
                      IN  Ok([p_client |-> p_client, P_client |-> P_client,
                              P_server |-> P_server, P_joint |-> P_joint])

ServerDkg_finalize_second_round_ShareSign(s_server, S0, S1, client_message_1, client_message_2) ==
    LET dC0 == decompress(client_message_1.C0)
        dC1 == decompress(client_message_1.C1)
    IN  IF dC0 = None \/ dC1 = None THEN Panic
        ELSE LET C0 == dC0[1]
                 C1 == dC1[1]
                 C_server == PointSub(C0, C1)
                 expected_C_server == mul_base(client_message_2.c_server)
             IN  IF compress(C_server) # compress(expected_C_server)
                 THEN Err("ShareVerification")
                 ELSE LET p_server == ScalarSub(client_message_2.c_server, s_server)
                          P_server == mul_base(p_server)
                          P_client == PointAdd(PointAdd(PointAdd(C0, C1), S0), S1)
                          P_joint == PointAdd(P_client, P_server)
                      IN  Ok([p_server |-> p_server, P_server |-> P_server,
                              P_client |-> P_client, P_joint |-> P_joint])

ServerDkg_finalize_second_round_NoCheck(s_server, S0, S1, client_message_1, client_message_2) ==
    LET dC0 == decompress(client_message_1.C0)
        dC1 == decompress(client_message_1.C1)
    IN  IF dC0 = None \/ dC1 = None THEN Panic
        ELSE LET C0 == dC0[1]
                 C1 == dC1[1]
                 p_server == ScalarAdd(client_message_2.c_server, s_server)
                 P_server == mul_base(p_server)
                 P_client == PointAdd(PointAdd(PointAdd(C0, C1), S0), S1)
                 P_joint == PointAdd(P_client, P_server)
             IN  Ok([p_server |-> p_server, P_server |-> P_server,
                     P_client |-> P_client, P_joint |-> P_joint])

ServerDkg_finalize_second_round(s_server, S0, S1, client_message_1, client_message_2) ==
    LET dC0 == decompress(client_message_1.C0)
        dC1 == decompress(client_message_1.C1)
    IN  IF dC0 = None \/ dC1 = None THEN Panic
        ELSE LET C0 == dC0[1]
                 C1 == dC1[1]
                 C_server == PointSub(C0, C1)
                 expected_C_server == mul_base(client_message_2.c_server)
             IN  IF compress(C_server) # compress(expected_C_server)
                 THEN Err("ShareVerification")
                 ELSE LET p_server == ScalarAdd(client_message_2.c_server, s_server)
                          P_server == mul_base(p_server)
                          P_client == PointAdd(PointAdd(PointAdd(C0, C1), S0), S1)
                          P_joint == PointAdd(P_client, P_server)
                      IN  Ok([p_server |-> p_server, P_server |-> P_server,
                              P_client |-> P_client, P_joint |-> P_joint])

\* ------------------------------------------------------------------------
\* sign/client.rs, sign/server.rs
\* ------------------------------------------------------------------------
\* the byte strings a caller may ask to sign (message: &[u8])
MessageBytes == {1}
Messages == UNION {[1..n -> MessageBytes] : n \in 0..MaxMsgLen}

\* d_client, e_client are the two draws of Scalar::random
ClientSign_first_round(d_client, e_client) ==
    LET D_client == mul_base(d_client)
        E_client == mul_base(e_client)
    IN  [d_client |-> d_client, e_client |-> e_client,
         msg |-> [D_client |-> compress(D_client), E_client |-> compress(E_client)]]

ServerSign_first_round(d_server, e_server) ==
    LET D_server == mul_base(d_server)
        E_server == mul_base(e_server)
    IN  [d_server |-> d_server, e_server |-> e_server,
         msg |-> [D_server |-> compress(D_server), E_server |-> compress(E_server)]]

\* rho_client, rho_server: the binding factors both rounds and both sides hash
\* the bytes h_client and h_server are updated with, in order
\* the Client's input under the Server's tag
BindingClientInput_ServerTag(message, client_message) ==
    ServerTag \o message \o as_bytes(client_message.D_client)
              \o as_bytes(client_message.E_client)
BindingClientInput(message, client_message) ==
    ClientTag \o message \o as_bytes(client_message.D_client)
              \o as_bytes(client_message.E_client)
BindingServerInput(message, server_message) ==
    ServerTag \o message \o as_bytes(server_message.D_server)
              \o as_bytes(server_message.E_server)
BindingClient(message, client_message) ==
    from_hash(BindingClientInput(message, client_message))
BindingServer(message, server_message) ==
    from_hash(BindingServerInput(message, server_message))
\* c: the joint challenge
Challenge(R, message, P_joint) ==
    from_hash(as_bytes(compress(R)) \o message \o as_bytes(P_joint))

ClientSign_second_round(p_client, P_joint, message, d_client, e_client, client_message, server_message) ==
    LET rho_client == BindingClient(message, client_message)
        rho_server == BindingServer(message, server_message)
        dD_client == decompress(client_message.D_client)
        dE_client == decompress(client_message.E_client)
        dD_server == decompress(server_message.D_server)
        dE_server == decompress(server_message.E_server)
    IN  IF dD_client = None \/ dE_client = None \/ dD_server = None \/ dE_server = None
        THEN Err("Decompression")
        ELSE LET R == PointAdd(PointAdd(PointAdd(dD_client[1],
                                   PointMul(dE_client[1], rho_client)),
                                   dD_server[1]),
                                   PointMul(dE_server[1], rho_server))
                 c == Challenge(R, message, P_joint)
                 z_client == ScalarAdd(ScalarAdd(d_client, ScalarMul(e_client, rho_client)),
                                       ScalarMul(p_client, c))
             IN  Ok([R |-> R, msg |-> [z_client |-> z_client]])

ServerSign_second_round_NoBinding(p_server, P_joint, message, d_server, e_server, client_message, server_message) ==
    LET rho_client == BindingClient(message, client_message)
        rho_server == BindingServer(message, server_message)
        dD_client == decompress(client_message.D_client)
        dE_client == decompress(client_message.E_client)
        dD_server == decompress(server_message.D_server)
        dE_server == decompress(server_message.E_server)
    IN  IF dD_client = None \/ dE_client = None \/ dD_server = None \/ dE_server = None
        THEN Err("Decompression")
        ELSE LET R == PointAdd(PointAdd(PointAdd(dD_client[1],
                                   PointMul(dE_client[1], rho_client)),
                                   dD_server[1]),
                                   dE_server[1])
                 c == Challenge(R, message, P_joint)
                 z_server == ScalarSub(ScalarAdd(d_server, ScalarMul(e_server, rho_server)),
                                       ScalarMul(p_server, c))
             IN  Ok([R |-> R, msg |-> [z_server |-> z_server]])

ServerSign_second_round(p_server, P_joint, message, d_server, e_server, client_message, server_message) ==
    LET rho_client == BindingClient(message, client_message)
        rho_server == BindingServer(message, server_message)
        dD_client == decompress(client_message.D_client)
        dE_client == decompress(client_message.E_client)
        dD_server == decompress(server_message.D_server)
        dE_server == decompress(server_message.E_server)
    IN  IF dD_client = None \/ dE_client = None \/ dD_server = None \/ dE_server = None
        THEN Err("Decompression")
        ELSE LET R == PointAdd(PointAdd(PointAdd(dD_client[1],
                                   PointMul(dE_client[1], rho_client)),
                                   dD_server[1]),
                                   PointMul(dE_server[1], rho_server))
                 c == Challenge(R, message, P_joint)
                 z_server == ScalarSub(ScalarAdd(d_server, ScalarMul(e_server, rho_server)),
                                       ScalarMul(p_server, c))
             IN  Ok([R |-> R, msg |-> [z_server |-> z_server]])

ClientSign_combine_sigs_PlusShare(P_joint, P_server, message, client_message_1, client_message_2, server_message_1, server_message_2) ==
    LET rho_client == BindingClient(message, client_message_1)
        dD_client == decompress(client_message_1.D_client)
        dE_client == decompress(client_message_1.E_client)
        rho_server == BindingServer(message, server_message_1)
        dD_server == decompress(server_message_1.D_server)
        dE_server == decompress(server_message_1.E_server)
        dY_server == decompress(P_server)
    IN  IF dD_client = None \/ dE_client = None \/ dD_server = None \/ dE_server = None
           \/ dY_server = None
        THEN Err("Decompression")
        ELSE LET R_client == PointAdd(dD_client[1], PointMul(dE_client[1], rho_client))
                 R_server == PointAdd(dD_server[1], PointMul(dE_server[1], rho_server))
                 R == PointAdd(R_client, R_server)
                 c == Challenge(R, message, P_joint)
                 partial_signature_1 == mul_base(server_message_2.z_server)
                 partial_signature_2 == PointAdd(R_server, PointMul(dY_server[1], c))
             IN  IF partial_signature_1 # partial_signature_2
                 THEN Err("PartialSignatureVerification")
                 ELSE Ok([R_joint |-> compress(R),
                          z_joint |-> ScalarAdd(client_message_2.z_client,
                                                server_message_2.z_server)])

\* the five decompress()? calls are in program order D_client, E_client,
\* D_server, E_server, P_server; each returns the same Decompression
ClientSign_combine_sigs_VerifyFirst(P_joint, P_server, message, client_message_1, client_message_2, server_message_1, server_message_2) ==
    LET rho_client == BindingClient(message, client_message_1)
        dD_client == decompress(client_message_1.D_client)
        dE_client == decompress(client_message_1.E_client)
        rho_server == BindingServer(message, server_message_1)
        dD_server == decompress(server_message_1.D_server)
        dE_server == decompress(server_message_1.E_server)
        dY_server == decompress(P_server)
    IN  IF dD_client = None \/ dE_client = None \/ dD_server = None \/ dE_server = None
        THEN Err("Decompression")
        ELSE IF dY_server = None THEN Err("PartialSignatureVerification")
        ELSE LET R_client == PointAdd(dD_client[1], PointMul(dE_client[1], rho_client))
                 R_server == PointAdd(dD_server[1], PointMul(dE_server[1], rho_server))
                 R == PointAdd(R_client, R_server)
                 c == Challenge(R, message, P_joint)
                 partial_signature_1 == mul_base(server_message_2.z_server)
                 partial_signature_2 == PointSub(R_server, PointMul(dY_server[1], c))
             IN  IF partial_signature_1 # partial_signature_2
                 THEN Err("PartialSignatureVerification")
                 ELSE Ok([R_joint |-> compress(R),
                          z_joint |-> ScalarAdd(client_message_2.z_client,
                                                server_message_2.z_server)])

ClientSign_combine_sigs_Difference(P_joint, P_server, message, client_message_1, client_message_2, server_message_1, server_message_2) ==
    LET rho_client == BindingClient(message, client_message_1)
        dD_client == decompress(client_message_1.D_client)
        dE_client == decompress(client_message_1.E_client)
        rho_server == BindingServer(message, server_message_1)
        dD_server == decompress(server_message_1.D_server)
        dE_server == decompress(server_message_1.E_server)
        dY_server == decompress(P_server)
    IN  IF dD_client = None \/ dE_client = None \/ dD_server = None \/ dE_server = None
           \/ dY_server = None
        THEN Err("Decompression")
        ELSE LET R_client == PointAdd(dD_client[1], PointMul(dE_client[1], rho_client))
                 R_server == PointAdd(dD_server[1], PointMul(dE_server[1], rho_server))
                 R == PointAdd(R_client, R_server)
                 c == Challenge(R, message, P_joint)
                 partial_signature_1 == mul_base(server_message_2.z_server)
                 partial_signature_2 == PointSub(R_server, PointMul(dY_server[1], c))
             IN  IF partial_signature_1 # partial_signature_2
                 THEN Err("PartialSignatureVerification")
                 ELSE Ok([R_joint |-> compress(R),
                          z_joint |-> ScalarSub(client_message_2.z_client,
                                                server_message_2.z_server)])

\* combine_sigs that verifies the sum of the two partial signatures
ClientSign_combine_sigs_VerifiesSum(P_joint, P_server, message, client_message_1, client_message_2, server_message_1, server_message_2) ==
    LET rho_client == BindingClient(message, client_message_1)
        dD_client == decompress(client_message_1.D_client)
        dE_client == decompress(client_message_1.E_client)
        rho_server == BindingServer(message, server_message_1)
        dD_server == decompress(server_message_1.D_server)
        dE_server == decompress(server_message_1.E_server)
        dY_server == decompress(P_server)
        dY_joint == decompress(P_joint)
    IN  IF dD_client = None \/ dE_client = None \/ dD_server = None \/ dE_server = None
           \/ dY_server = None \/ dY_joint = None
        THEN Err("Decompression")
        ELSE LET R_client == PointAdd(dD_client[1], PointMul(dE_client[1], rho_client))
                 R_server == PointAdd(dD_server[1], PointMul(dE_server[1], rho_server))
                 R == PointAdd(R_client, R_server)
                 c == Challenge(R, message, P_joint)
                 z_joint == ScalarAdd(client_message_2.z_client, server_message_2.z_server)
             IN  IF mul_base(z_joint) # PointSub(R, PointMul(dY_joint[1], c))
                 THEN Err("PartialSignatureVerification")
                 ELSE Ok([R_joint |-> compress(R), z_joint |-> z_joint])

ClientSign_combine_sigs(P_joint, P_server, message, client_message_1, client_message_2, server_message_1, server_message_2) ==
    LET rho_client == BindingClient(message, client_message_1)
        dD_client == decompress(client_message_1.D_client)
        dE_client == decompress(client_message_1.E_client)
        rho_server == BindingServer(message, server_message_1)
        dD_server == decompress(server_message_1.D_server)
        dE_server == decompress(server_message_1.E_server)
        dY_server == decompress(P_server)
    IN  IF dD_client = None \/ dE_client = None \/ dD_server = None \/ dE_server = None
           \/ dY_server = None
        THEN Err("Decompression")
        ELSE LET R_client == PointAdd(dD_client[1], PointMul(dE_client[1], rho_client))
                 R_server == PointAdd(dD_server[1], PointMul(dE_server[1], rho_server))
                 R == PointAdd(R_client, R_server)
                 c == Challenge(R, message, P_joint)
                 partial_signature_1 == mul_base(server_message_2.z_server)
                 partial_signature_2 == PointSub(R_server, PointMul(dY_server[1], c))
             IN  IF partial_signature_1 # partial_signature_2
                 THEN Err("PartialSignatureVerification")
                 ELSE Ok([R_joint |-> compress(R),
                          z_joint |-> ScalarAdd(client_message_2.z_client,
                                                server_message_2.z_server)])

ServerSign_combine_sigs_OwnOnly(P_joint, P_client, message, client_message_1, client_message_2, server_message_1, server_message_2) ==
    LET rho_client == BindingClient(message, client_message_1)
        dD_client == decompress(client_message_1.D_client)
        dE_client == decompress(client_message_1.E_client)
        rho_server == BindingServer(message, server_message_1)
        dD_server == decompress(server_message_1.D_server)
        dE_server == decompress(server_message_1.E_server)
        dY_client == decompress(P_client)
    IN  IF dD_client = None \/ dE_client = None \/ dD_server = None \/ dE_server = None
           \/ dY_client = None
        THEN Err("Decompression")
        ELSE LET R_client == PointAdd(dD_client[1], PointMul(dE_client[1], rho_client))
                 R_server == PointAdd(dD_server[1], PointMul(dE_server[1], rho_server))
                 R == PointAdd(R_client, R_server)
                 c == Challenge(R, message, P_joint)
                 expected_1 == mul_base(client_message_2.z_client)
                 expected_2 == PointAdd(R_client, PointMul(dY_client[1], c))
             IN  IF expected_1 # expected_2
                 THEN Err("PartialSignatureVerification")
                 ELSE Ok([R_joint |-> compress(R),
                          z_joint |-> server_message_2.z_server])

ServerSign_combine_sigs(P_joint, P_client, message, client_message_1, client_message_2, server_message_1, server_message_2) ==
    LET rho_client == BindingClient(message, client_message_1)
        dD_client == decompress(client_message_1.D_client)
        dE_client == decompress(client_message_1.E_client)
        rho_server == BindingServer(message, server_message_1)
        dD_server == decompress(server_message_1.D_server)
        dE_server == decompress(server_message_1.E_server)
        dY_client == decompress(P_client)
    IN  IF dD_client = None \/ dE_client = None \/ dD_server = None \/ dE_server = None
           \/ dY_client = None
        THEN Err("Decompression")
        ELSE LET R_client == PointAdd(dD_client[1], PointMul(dE_client[1], rho_client))
                 R_server == PointAdd(dD_server[1], PointMul(dE_server[1], rho_server))
                 R == PointAdd(R_client, R_server)
                 c == Challenge(R, message, P_joint)
                 expected_1 == mul_base(client_message_2.z_client)
                 expected_2 == PointAdd(R_client, PointMul(dY_client[1], c))
             IN  IF expected_1 # expected_2
                 THEN Err("PartialSignatureVerification")
                 ELSE Ok([R_joint |-> compress(R),
                          z_joint |-> ScalarAdd(client_message_2.z_client,
                                                server_message_2.z_server)])

\* ------------------------------------------------------------------------
\* The driver: lib.rs test_correctness, its statements taken in any order
\* their data dependencies allow
\* ------------------------------------------------------------------------
VARIABLES
    dkg,    \* the results of the eight DKG calls (None: not called yet)
    keys,   \* P_joint, P_client, P_server and the shares handed to signing
    sign,   \* the message and the results of the six signing calls
    call,   \* one call of a verifying function: its arguments and result
    sessions \* how the signing sessions over `keys` ended so far, and whether
             \* the transport altered a message of the current one

vars == <<dkg, keys, sign, call, sessions>>

DkgInit ==
    [client_r1 |-> None, server_r1 |-> None,
     server_fin1 |-> None, client_fin1 |-> None,
     client_r2 |-> None, server_r2 |-> None,
     client_fin2 |-> None, server_fin2 |-> None]

SignInit ==
    [message |-> None,
     client_r1 |-> None, server_r1 |-> None,
     client_r2 |-> None, server_r2 |-> None,
     client_comb |-> None, server_comb |-> None]

Init ==
    /\ dkg = DkgInit
    /\ keys = None
    /\ sign = SignInit
    /\ call = None
    /\ sessions = [ended |-> {}, tampered |-> FALSE]

\* lib.rs:15
ClientDkgStart1 ==
    /\ keys = None
    /\ dkg.client_r1 = None
    /\ \E c0 \in Scalar, c1 \in Scalar, k \in Scalar :
          dkg' = [dkg EXCEPT !.client_r1 = Some(ClientDkg_start_first_round(c0, c1, k))]
    /\ UNCHANGED <<keys, sign, call, sessions>>

\* lib.rs:16
ServerDkgStart1 ==
    /\ keys = None
    /\ dkg.server_r1 = None
    /\ \E s0 \in Scalar, s1 \in Scalar, k \in Scalar :
          dkg' = [dkg EXCEPT !.server_r1 = Some(ServerDkg_start_first_round(s0, s1, k))]
    /\ UNCHANGED <<keys, sign, call, sessions>>

\* lib.rs:18
ServerDkgFinalize1 ==
    /\ keys = None
    /\ dkg.server_fin1 = None
    /\ dkg.client_r1 # None
    /\ dkg' = [dkg EXCEPT !.server_fin1 =
                  Some(ServerDkg_finalize_first_round(dkg.client_r1[1].msg))]
    /\ UNCHANGED <<keys, sign, call, sessions>>

\* lib.rs:19
ClientDkgFinalize1 ==
    /\ keys = None
    /\ dkg.client_fin1 = None
    /\ dkg.server_r1 # None
    /\ dkg' = [dkg EXCEPT !.client_fin1 =
                  Some(ClientDkg_finalize_first_round(dkg.server_r1[1].msg))]
    /\ UNCHANGED <<keys, sign, call, sessions>>

\* a start_second_round whose kept share depends on whether the Server has
\* already started its second round
ClientDkgStart2_PeerFirst ==
    /\ keys = None
    /\ dkg.client_r2 = None
    /\ dkg.client_r1 # None
    /\ dkg' = [dkg EXCEPT !.client_r2 =
                  Some(IF dkg.server_r2 = None
                       THEN ClientDkg_start_second_round(dkg.client_r1[1].c0, dkg.client_r1[1].c1)
                       ELSE ClientDkg_start_second_round(dkg.client_r1[1].c1, dkg.client_r1[1].c0))]
    /\ UNCHANGED <<keys, sign, call, sessions>>

\* lib.rs:21
ClientDkgStart2 ==
    /\ keys = None
    /\ dkg.client_r2 = None
    /\ dkg.client_r1 # None
    /\ dkg' = [dkg EXCEPT !.client_r2 =
                  Some(ClientDkg_start_second_round(dkg.client_r1[1].c0, dkg.client_r1[1].c1))]
    /\ UNCHANGED <<keys, sign, call, sessions>>

\* lib.rs:22
\* a start_second_round that waits until the Client has finalized the DKG
ServerDkgStart2_AwaitsPeer ==
    /\ keys = None
    /\ dkg.server_r2 = None
    /\ dkg.server_r1 # None
    /\ dkg.client_fin2 # None
    /\ dkg' = [dkg EXCEPT !.server_r2 =
                  Some(ServerDkg_start_second_round(dkg.server_r1[1].s0, dkg.server_r1[1].s1))]
    /\ UNCHANGED <<keys, sign, call, sessions>>

ServerDkgStart2 ==
    /\ keys = None
    /\ dkg.server_r2 = None
    /\ dkg.server_r1 # None
    /\ dkg' = [dkg EXCEPT !.server_r2 =
                  Some(ServerDkg_start_second_round(dkg.server_r1[1].s0, dkg.server_r1[1].s1))]
    /\ UNCHANGED <<keys, sign, call, sessions>>

\* lib.rs:24-31
ClientDkgFinalize2 ==
    /\ keys = None
    /\ dkg.client_fin2 = None
    /\ dkg.client_r2 # None
    /\ dkg.server_r1 # None
    /\ dkg.server_r2 # None
    /\ dkg' = [dkg EXCEPT !.client_fin2 =
                  Some(ClientDkg_finalize_second_round(
                          dkg.client_r2[1].c_client,
                          dkg.client_r1[1].C0, dkg.client_r1[1].C1,
                          dkg.server_r1[1].msg, dkg.server_r2[1].msg))]
    /\ UNCHANGED <<keys, sign, call, sessions>>

\* lib.rs:33-40
ServerDkgFinalize2 ==
    /\ keys = None
    /\ dkg.server_fin2 = None
    /\ dkg.server_r2 # None
    /\ dkg.client_r1 # None
    /\ dkg.client_r2 # None
    /\ dkg' = [dkg EXCEPT !.server_fin2 =
                  Some(ServerDkg_finalize_second_round(
                          dkg.server_r2[1].s_server,
                          dkg.server_r1[1].S0, dkg.server_r1[1].S1,
                          dkg.client_r1[1].msg, dkg.client_r2[1].msg))]
    /\ UNCHANGED <<keys, sign, call, sessions>>

\* every DKG call has returned and every unwrap() of lib.rs:18-40 passed
DkgDone ==
    /\ \A f \in DOMAIN dkg : dkg[f] # None
    /\ IsOk(dkg.server_fin1[1]) /\ IsOk(dkg.client_fin1[1])
    /\ IsOk(dkg.client_fin2[1]) /\ IsOk(dkg.server_fin2[1])

\* lib.rs:63-66: the compressed public keys of the Client's finalize and the
\* two shares go on to signing; the secrets of the DKG session are dropped
BeginSigning ==
    /\ keys = None
    /\ DkgDone
    /\ keys' = Some([p_client |-> dkg.client_fin2[1].val.p_client,
                     p_server |-> dkg.server_fin2[1].val.p_server,
                     P_joint |-> compress(dkg.client_fin2[1].val.P_joint),
                     P_client |-> compress(dkg.client_fin2[1].val.P_client),
                     P_server |-> compress(dkg.client_fin2[1].val.P_server)])
    /\ \E m \in Messages : sign' = [sign EXCEPT !.message = Some(m)]
    /\ dkg' = DkgInit
    /\ UNCHANGED <<call, sessions>>

\* lib.rs:68
ClientSignFirst ==
    /\ keys # None
    /\ sign.client_r1 = None
    /\ \E d \in Scalar, e \in Scalar :
          sign' = [sign EXCEPT !.client_r1 = Some(ClientSign_first_round(d, e))]
    /\ UNCHANGED <<dkg, keys, call, sessions>>

\* lib.rs:69
ServerSignFirst ==
    /\ keys # None
    /\ sign.server_r1 = None
    /\ \E d \in Scalar, e \in Scalar :
          sign' = [sign EXCEPT !.server_r1 = Some(ServerSign_first_round(d, e))]
    /\ UNCHANGED <<dkg, keys, call, sessions>>

\* lib.rs:71-80
ClientSignSecond ==
    /\ keys # None
    /\ sign.client_r2 = None
    /\ sign.client_r1 # None
    /\ sign.server_r1 # None
    /\ sign' = [sign EXCEPT !.client_r2 =
                   Some(ClientSign_second_round(
                           keys[1].p_client, keys[1].P_joint, sign.message[1],
                           sign.client_r1[1].d_client, sign.client_r1[1].e_client,
                           sign.client_r1[1].msg, sign.server_r1[1].msg))]
    /\ UNCHANGED <<dkg, keys, call, sessions>>

\* lib.rs:82-91
ServerSignSecond ==
    /\ keys # None
    /\ sign.server_r2 = None
    /\ sign.client_r1 # None
    /\ sign.server_r1 # None
    /\ sign' = [sign EXCEPT !.server_r2 =
                   Some(ServerSign_second_round(
                           keys[1].p_server, keys[1].P_joint, sign.message[1],
                           sign.server_r1[1].d_server, sign.server_r1[1].e_server,
                           sign.client_r1[1].msg, sign.server_r1[1].msg))]
    /\ UNCHANGED <<dkg, keys, call, sessions>>

\* both second_round calls have returned and their unwrap() passed
SignRoundsDone ==
    /\ sign.client_r2 # None /\ sign.server_r2 # None
    /\ IsOk(sign.client_r2[1]) /\ IsOk(sign.server_r2[1])

\* lib.rs:95-104
ClientCombine ==
    /\ keys # None
    /\ sign.client_comb = None
    /\ SignRoundsDone
    /\ sign' = [sign EXCEPT !.client_comb =
                   Some(ClientSign_combine_sigs(
                           keys[1].P_joint, keys[1].P_server, sign.message[1],
                           sign.client_r1[1].msg, sign.client_r2[1].val.msg,
                           sign.server_r1[1].msg, sign.server_r2[1].val.msg))]
    /\ UNCHANGED <<dkg, keys, call, sessions>>

\* lib.rs:106-115
ServerCombine ==
    /\ keys # None
    /\ sign.server_comb = None
    /\ SignRoundsDone
    /\ sign' = [sign EXCEPT !.server_comb =
                   Some(ServerSign_combine_sigs(
                           keys[1].P_joint, keys[1].P_client, sign.message[1],
                           sign.client_r1[1].msg, sign.client_r2[1].val.msg,
                           sign.server_r1[1].msg, sign.server_r2[1].val.msg))]
    /\ UNCHANGED <<dkg, keys, call, sessions>>

Next ==
    \/ ClientDkgStart1 \/ ServerDkgStart1
    \/ ServerDkgFinalize1 \/ ClientDkgFinalize1
    \/ ClientDkgStart2 \/ ServerDkgStart2
    \/ ClientDkgFinalize2 \/ ServerDkgFinalize2
    \/ BeginSigning
    \/ ClientSignFirst \/ ServerSignFirst
    \/ ClientSignSecond \/ ServerSignSecond
    \/ ClientCombine \/ ServerCombine

Spec == Init /\ [][Next]_vars

\* lib.rs:13-120 is straight-line code: a call whose arguments are at hand is
\* made, and no call waits for anything but its arguments
SpecLive == Init /\ [][Next]_vars /\ WF_vars(Next)

\* ------------------------------------------------------------------------
\* Properties of the honest run (Spec)
\* ------------------------------------------------------------------------
ClientKeys == dkg.client_fin2[1].val
ServerKeys == dkg.server_fin2[1].val
BothFinalized ==
    /\ dkg.client_fin2 # None /\ dkg.server_fin2 # None
    /\ IsOk(dkg.client_fin2[1]) /\ IsOk(dkg.server_fin2[1])

\* C1: in an honest DKG both finalize_second_round calls return Ok and the
\* compressed P_client, P_server, P_joint of the Client equal the Server's.
C1_DkgAgreement ==
    /\ dkg.client_fin2 # None => IsOk(dkg.client_fin2[1])
    /\ dkg.server_fin2 # None => IsOk(dkg.server_fin2[1])
    /\ BothFinalized =>
          /\ compress(ClientKeys.P_client) = compress(ServerKeys.P_client)
          /\ compress(ClientKeys.P_server) = compress(ServerKeys.P_server)
          /\ compress(ClientKeys.P_joint) = compress(ServerKeys.P_joint)

C1_Witness ==
    /\ BothFinalized
    /\ dkg.client_r1[1].c1 # 0 /\ dkg.server_r1[1].s1 # 0
    /\ ClientKeys.P_server # Identity /\ ClientKeys.P_client # Identity
    /\ ClientKeys.P_client # ClientKeys.P_server

BothCombined ==
    /\ sign.client_comb # None /\ sign.server_comb # None
    /\ IsOk(sign.client_comb[1]) /\ IsOk(sign.server_comb[1])

\* the Ed25519 verification equation z.B = R + c.A with
\* c = H(compress(R) || m || compress(A))
Ed25519Verifies(A, m, sig) ==
    LET R == decompress(sig.R_joint)
        A_point == decompress(A)
        c == from_hash(as_bytes(sig.R_joint) \o m \o as_bytes(A))
    IN  /\ R # None /\ A_point # None
        /\ mul_base(sig.z_joint) = PointAdd(R[1], PointMul(A_point[1], c))

\* C2: after an honest DKG and an honest signing session the pair
\* (R_joint, z_joint) returned by combine_sigs verifies as an Ed25519
\* signature of the message under P_joint.
C2_SignatureValid ==
    /\ sign.client_comb # None /\ IsOk(sign.client_comb[1]) =>
          Ed25519Verifies(keys[1].P_joint, sign.message[1], sign.client_comb[1].val)
    /\ sign.server_comb # None /\ IsOk(sign.server_comb[1]) =>
          Ed25519Verifies(keys[1].P_joint, sign.message[1], sign.server_comb[1].val)

\* C3: after an honest DKG (p_client + p_server).B is the P_joint both
\* parties derived and p_client + p_server = 2 c0 + 2 s0 (mod l).
C3_JointKey ==
    BothFinalized =>
       LET p_joint == ScalarAdd(ClientKeys.p_client, ServerKeys.p_server)
       IN  /\ compress(mul_base(p_joint)) = compress(ClientKeys.P_joint)
           /\ compress(mul_base(p_joint)) = compress(ServerKeys.P_joint)
           /\ p_joint = ScalarAdd(ScalarMul(2, dkg.client_r1[1].c0),
                                  ScalarMul(2, dkg.server_r1[1].s0))

C3_Witness ==
    /\ BothFinalized
    /\ dkg.client_r1[1].c1 # 0 /\ dkg.server_r1[1].s1 # 0
    /\ ScalarAdd(ClientKeys.p_client, ServerKeys.p_server) # 0

\* C4: after an honest DKG p_client.B compresses to the P_client both
\* parties derived and p_server.B to the P_server both parties derived.
C4_ShareMatchesPublicShare ==
    BothFinalized =>
       /\ compress(mul_base(ClientKeys.p_client)) = compress(ClientKeys.P_client)
       /\ compress(mul_base(ClientKeys.p_client)) = compress(ServerKeys.P_client)
       /\ compress(mul_base(ServerKeys.p_server)) = compress(ServerKeys.P_server)
       /\ compress(mul_base(ServerKeys.p_server)) = compress(ClientKeys.P_server)

C4_Witness ==
    /\ BothFinalized
    /\ ClientKeys.p_client # 0 /\ ServerKeys.p_server # 0
    /\ ClientKeys.p_client # ServerKeys.p_server

\* C5: for every message, the empty one included, both combine_sigs calls
\* of an honest session return Ok and the same (R_joint, z_joint).
C5_SigningAgreement ==
    /\ sign.client_comb # None => IsOk(sign.client_comb[1])
    /\ sign.server_comb # None => IsOk(sign.server_comb[1])
    /\ BothCombined => sign.client_comb[1].val = sign.server_comb[1].val

C5_Witness ==
    /\ BothCombined
    /\ sign.message[1] = <<>>
    /\ keys[1].p_client # 0 /\ keys[1].p_server # 0
    /\ sign.client_r2[1].val.msg.z_client # 0
    /\ sign.server_r2[1].val.msg.z_server # 0

\* C6: both second_round calls return the same point R, which compresses to
\* the R_joint of either combine_sigs, and
\* R = D_client + rho_client.E_client + D_server + rho_server.E_server.
C6_GroupNonce ==
    LET R_expected ==
           LET rho_client == from_hash(ClientTag \o sign.message[1]
                                 \o compress(mul_base(sign.client_r1[1].d_client))
                                 \o compress(mul_base(sign.client_r1[1].e_client)))
               rho_server == from_hash(ServerTag \o sign.message[1]
                                 \o compress(mul_base(sign.server_r1[1].d_server))
                                 \o compress(mul_base(sign.server_r1[1].e_server)))
           IN  PointAdd(PointAdd(mul_base(sign.client_r1[1].d_client),
                                 PointMul(mul_base(sign.client_r1[1].e_client), rho_client)),
                        PointAdd(mul_base(sign.server_r1[1].d_server),
                                 PointMul(mul_base(sign.server_r1[1].e_server), rho_server)))
    IN  /\ sign.client_r2 # None =>
              IsOk(sign.client_r2[1]) /\ sign.client_r2[1].val.R = R_expected
        /\ sign.server_r2 # None =>
              IsOk(sign.server_r2[1]) /\ sign.server_r2[1].val.R = R_expected
        /\ sign.client_r2 # None /\ sign.server_r2 # None =>
              sign.client_r2[1].val.R = sign.server_r2[1].val.R
        /\ sign.client_comb # None /\ IsOk(sign.client_comb[1]) =>
              sign.client_comb[1].val.R_joint = compress(sign.client_r2[1].val.R)
        /\ sign.server_comb # None /\ IsOk(sign.server_comb[1]) =>
              sign.server_comb[1].val.R_joint = compress(sign.client_r2[1].val.R)

C6_Witness ==
    /\ BothCombined
    /\ sign.client_r1[1].e_client # 0 /\ sign.server_r1[1].e_server # 0
    /\ BindingClient(sign.message[1], sign.client_r1[1].msg) # 0
    /\ BindingServer(sign.message[1], sign.server_r1[1].msg) > 1
    /\ sign.client_r2[1].val.R # Identity

\* ------------------------------------------------------------------------
\* lib.rs:15-40 in the order of the test, from the results of the two
\* start_first_round calls (the random draws of the DKG)
TestCorrectnessDkg(client_1, server_1) ==
    LET server_fin1 == ServerDkg_finalize_first_round(client_1.msg)
        client_fin1 == ClientDkg_finalize_first_round(server_1.msg)
        client_2 == ClientDkg_start_second_round(client_1.c0, client_1.c1)
        server_2 == ServerDkg_start_second_round(server_1.s0, server_1.s1)
        client_fin2 == ClientDkg_finalize_second_round(
                          client_2.c_client, client_1.C0, client_1.C1,
                          server_1.msg, server_2.msg)
        server_fin2 == ServerDkg_finalize_second_round(
                          server_2.s_server, server_1.S0, server_1.S1,
                          client_1.msg, client_2.msg)
    IN  [client_r1 |-> client_1, server_r1 |-> server_1,
         server_fin1 |-> server_fin1, client_fin1 |-> client_fin1,
         client_r2 |-> client_2, server_r2 |-> server_2,
         client_fin2 |-> client_fin2, server_fin2 |-> server_fin2]

\* lib.rs:68-115 in the order of the test, from the keys, the message and the
\* results of the two first_round calls (the random draws of the session)
TestCorrectnessSign(k, message, client_1, server_1) ==
    LET client_2 == ClientSign_second_round(
                       k.p_client, k.P_joint, message,
                       client_1.d_client, client_1.e_client, client_1.msg, server_1.msg)
        server_2 == ServerSign_second_round(
                       k.p_server, k.P_joint, message,
                       server_1.d_server, server_1.e_server, client_1.msg, server_1.msg)
        client_comb == ClientSign_combine_sigs(
                          k.P_joint, k.P_server, message,
                          client_1.msg, client_2.val.msg, server_1.msg, server_2.val.msg)
        server_comb == ServerSign_combine_sigs(
                          k.P_joint, k.P_client, message,
                          client_1.msg, client_2.val.msg, server_1.msg, server_2.val.msg)
    IN  [message |-> message,
         client_r1 |-> client_1, server_r1 |-> server_1,
         client_r2 |-> client_2, server_r2 |-> server_2,
         client_comb |-> client_comb, server_comb |-> server_comb]

\* C15: with the draws fixed, once a party holds its key shares or its
\* signature, reached in any order the data dependencies allow, every call
\* made so far has returned what the sequential order of the test returns:
\* the same round-2 messages, key shares, public keys, group nonce and
\* signature.
C15_ReorderingTolerance ==
    /\ dkg.client_fin2 # None \/ dkg.server_fin2 # None =>
          \A seq \in {TestCorrectnessDkg(dkg.client_r1[1], dkg.server_r1[1])} :
          \A f \in DOMAIN dkg :
             dkg[f] # None => dkg[f][1] = seq[f]
    /\ sign.client_comb # None \/ sign.server_comb # None =>
          \A seq \in {TestCorrectnessSign(keys[1], sign.message[1],
                                          sign.client_r1[1], sign.server_r1[1])} :
          \A f \in DOMAIN sign \ {"message"} :
             sign[f] # None => sign[f][1] = seq[f]

\* an order the test does not take: the Server has its key shares before
\* either finalize_first_round and before the Client's finalize_second_round
C15_Witness ==
    /\ dkg.server_fin2 # None /\ IsOk(dkg.server_fin2[1])
    /\ dkg.server_fin1 = None /\ dkg.client_fin1 = None /\ dkg.client_fin2 = None
    /\ dkg.server_fin2[1].val.p_server # 0

\* what C18 says of the two start_second_round calls apart from the relation
\* between the sent and the kept scalar: the Client keeps c0 + c1 and sends
\* c0 - c1, the Server keeps s0 - s1 and sends s0 + s1, and the sent scalar
\* is the one scalar that passes the peer's share check against the sender's
\* round-1 commitments (c_server.B = C0 - C1, s_client.B = S0 + S1).
Round2Shares ==
    /\ dkg.client_r2 # None =>
          LET r1 == dkg.client_r1[1]
              r2 == dkg.client_r2[1]
          IN  /\ r2.c_client = ScalarAdd(r1.c0, r1.c1)
              /\ r2.msg.c_server = ScalarSub(r1.c0, r1.c1)
              /\ \A s \in Scalar :
                    s = r2.msg.c_server <=>
                       mul_base(s) = PointSub(decompress(r1.msg.C0)[1],
                                              decompress(r1.msg.C1)[1])
              /\ dkg.server_fin2 # None => IsOk(dkg.server_fin2[1])
    /\ dkg.server_r2 # None =>
          LET r1 == dkg.server_r1[1]
              r2 == dkg.server_r2[1]
          IN  /\ r2.s_server = ScalarSub(r1.s0, r1.s1)
              /\ r2.msg.s_client = ScalarAdd(r1.s0, r1.s1)
              /\ \A s \in Scalar :
                    s = r2.msg.s_client <=>
                       mul_base(s) = PointAdd(decompress(r1.msg.S0)[1],
                                              decompress(r1.msg.S1)[1])
              /\ dkg.client_fin2 # None => IsOk(dkg.client_fin2[1])

\* C18 as stated: the round-2 shares are as above and the scalar a party
\* sends is never the one it keeps.
C18_Round2Asymmetry_AsStated ==
    /\ Round2Shares
    /\ dkg.client_r2 # None => dkg.client_r2[1].msg.c_server # dkg.client_r2[1].c_client
    /\ dkg.server_r2 # None => dkg.server_r2[1].msg.s_client # dkg.server_r2[1].s_server

\* C18 amended: the round-2 shares are as above and the scalar a party sends
\* equals the one it keeps exactly when its second draw (c1, s1) is zero.
C18_Round2Asymmetry ==
    /\ Round2Shares
    /\ dkg.client_r2 # None =>
          (dkg.client_r2[1].msg.c_server = dkg.client_r2[1].c_client
              <=> dkg.client_r1[1].c1 = 0)
    /\ dkg.server_r2 # None =>
          (dkg.server_r2[1].msg.s_client = dkg.server_r2[1].s_server
              <=> dkg.server_r1[1].s1 = 0)

\* both parties finalized with shares they did not send
C18_Witness ==
    /\ BothFinalized
    /\ dkg.client_r1[1].c1 # 0 /\ dkg.server_r1[1].s1 # 0
    /\ dkg.client_r2[1].msg.c_server # dkg.client_r2[1].c_client
    /\ dkg.server_r2[1].msg.s_client # dkg.server_r2[1].s_server
    /\ dkg.client_r2[1].msg.c_server # dkg.server_r2[1].msg.s_client

\* C20: after an honest signing session the z_joint either combine_sigs
\* returns is z_client + z_server, and z_joint.B = R_client + R_server
\* + (p_client.c - p_server.c).B = R_joint + c.(P_client - P_server).
C20_CombinedSignatureRelation ==
    \A comb \in {sign.client_comb, sign.server_comb} \ {None} :
       /\ IsOk(comb[1])
       /\ \A R_client \in {PointAdd(mul_base(sign.client_r1[1].d_client),
                              PointMul(mul_base(sign.client_r1[1].e_client),
                                       BindingClient(sign.message[1], sign.client_r1[1].msg)))},
             R_server \in {PointAdd(mul_base(sign.server_r1[1].d_server),
                              PointMul(mul_base(sign.server_r1[1].e_server),
                                       BindingServer(sign.message[1], sign.server_r1[1].msg)))} :
          \A c \in {Challenge(PointAdd(R_client, R_server), sign.message[1], keys[1].P_joint)} :
             /\ comb[1].val.z_joint = ScalarAdd(sign.client_r2[1].val.msg.z_client,
                                                sign.server_r2[1].val.msg.z_server)
             /\ comb[1].val.R_joint = compress(PointAdd(R_client, R_server))
             /\ mul_base(comb[1].val.z_joint)
                   = PointAdd(PointAdd(R_client, R_server),
                              mul_base(ScalarSub(ScalarMul(keys[1].p_client, c),
                                                 ScalarMul(keys[1].p_server, c))))
             /\ mul_base(comb[1].val.z_joint)
                   = PointAdd(decompress(comb[1].val.R_joint)[1],
                              PointMul(PointSub(decompress(keys[1].P_client)[1],
                                                decompress(keys[1].P_server)[1]), c))

\* a session whose challenge and shares are non-zero and whose signature
\* does not verify under P_joint
C20_Witness ==
    /\ BothCombined
    /\ keys[1].p_server # 0 /\ keys[1].p_client # keys[1].p_server
    /\ Challenge(sign.client_r2[1].val.R, sign.message[1], keys[1].P_joint) # 0
    /\ sign.client_comb[1].val.z_joint # 0
    /\ ~Ed25519Verifies(keys[1].P_joint, sign.message[1], sign.client_comb[1].val)

\* One call of a verifying function (SpecCall).  The arguments that come
\* from the peer are whatever the peer or the transport hands over; the
\* arguments the caller holds itself are outputs of its own honest calls.
\* `sent` is what an honest peer produced (None when the peer is not honest).
\* ------------------------------------------------------------------------
\* the DKG round-1 messages a peer can hand over
DkgClientRound1 ==
    [C0 : CompressedEdwardsY, C1 : CompressedEdwardsY, R : CompressedEdwardsY, mu : Scalar]
DkgServerRound1 ==
    [S0 : CompressedEdwardsY, S1 : CompressedEdwardsY, R : CompressedEdwardsY, mu : Scalar]

\* dkg/client.rs:93 on any Server message
CallClientDkgFinalize1 ==
    /\ call = None
    /\ \E server_message \in DkgServerRound1 :
          call' = Some([fn |-> "ClientDkg::finalize_first_round",
                        sent |-> None,
                        peer_message_1 |-> server_message,
                        ret |-> ClientDkg_finalize_first_round(server_message)])
    /\ UNCHANGED <<dkg, keys, sign, sessions>>

\* dkg/server.rs:93 on any Client message
CallServerDkgFinalize1 ==
    /\ call = None
    /\ \E client_message \in DkgClientRound1 :
          call' = Some([fn |-> "ServerDkg::finalize_first_round",
                        sent |-> None,
                        peer_message_1 |-> client_message,
                        ret |-> ServerDkg_finalize_first_round(client_message)])
    /\ UNCHANGED <<dkg, keys, sign, sessions>>

\* dkg/client.rs:93 on the message of an honest ServerDkg::start_first_round
\* whose mu the transport may have replaced
CallClientDkgFinalize1Sent ==
    /\ call = None
    /\ \E s0 \in Scalar, s1 \in Scalar, k \in Scalar, mu \in Scalar :
          LET sent == ServerDkg_start_first_round(s0, s1, k).msg
              server_message == [sent EXCEPT !.mu = mu]
          IN  call' = Some([fn |-> "ClientDkg::finalize_first_round",
                            sent |-> Some(sent),
                            peer_message_1 |-> server_message,
                            ret |-> ClientDkg_finalize_first_round(server_message)])
    /\ UNCHANGED <<dkg, keys, sign, sessions>>

\* dkg/server.rs:93 on the message of an honest ClientDkg::start_first_round
\* whose mu the transport may have replaced
CallServerDkgFinalize1Sent ==
    /\ call = None
    /\ \E c0 \in Scalar, c1 \in Scalar, k \in Scalar, mu \in Scalar :
          LET sent == ClientDkg_start_first_round(c0, c1, k).msg
              client_message == [sent EXCEPT !.mu = mu]
          IN  call' = Some([fn |-> "ServerDkg::finalize_first_round",
                            sent |-> Some(sent),
                            peer_message_1 |-> client_message,
                            ret |-> ServerDkg_finalize_first_round(client_message)])
    /\ UNCHANGED <<dkg, keys, sign, sessions>>

\* what the caller of a verifying function has drawn itself; the arguments
\* that come from the peer range over all values
OwnDraw == {1}

\* R and mu of the round-1 message are fields finalize_second_round never
\* reads; two values of each are enough to show it
UnreadR == {compress(Identity), InvalidEncoding}
UnreadMu == {0, 1}

\* dkg/client.rs:126 with the Client's own c_client, C0, C1 and any Server
\* commitments and share
CallClientDkgFinalize2 ==
    /\ call = None
    /\ \E c0 \in OwnDraw, c1 \in OwnDraw,
          S0 \in CompressedEdwardsY, S1 \in CompressedEdwardsY,
          R \in UnreadR, mu \in UnreadMu, s_client \in Scalar :
          LET own_1 == ClientDkg_start_first_round(c0, c1, 0)
              own_2 == ClientDkg_start_second_round(c0, c1)
              server_message_1 == [S0 |-> S0, S1 |-> S1, R |-> R, mu |-> mu]
              server_message_2 == [s_client |-> s_client]
          IN  call' = Some([fn |-> "ClientDkg::finalize_second_round",
                            sent |-> None,
                            own |-> [c_client |-> own_2.c_client,
                                     C0 |-> own_1.C0, C1 |-> own_1.C1],
                            peer_message_1 |-> server_message_1,
                            peer_message_2 |-> server_message_2,
                            ret |-> ClientDkg_finalize_second_round(
                                       own_2.c_client, own_1.C0, own_1.C1,
                                       server_message_1, server_message_2)])
    /\ UNCHANGED <<dkg, keys, sign, sessions>>

\* dkg/server.rs:126 with the Server's own s_server, S0, S1 and any Client
\* commitments and share
CallServerDkgFinalize2 ==
    /\ call = None
    /\ \E s0 \in OwnDraw, s1 \in OwnDraw,
          C0 \in CompressedEdwardsY, C1 \in CompressedEdwardsY,
          R \in UnreadR, mu \in UnreadMu, c_server \in Scalar :
          LET own_1 == ServerDkg_start_first_round(s0, s1, 0)
              own_2 == ServerDkg_start_second_round(s0, s1)
              client_message_1 == [C0 |-> C0, C1 |-> C1, R |-> R, mu |-> mu]
              client_message_2 == [c_server |-> c_server]
          IN  call' = Some([fn |-> "ServerDkg::finalize_second_round",
                            sent |-> None,
                            own |-> [s_server |-> own_2.s_server,
                                     S0 |-> own_1.S0, S1 |-> own_1.S1],
                            peer_message_1 |-> client_message_1,
                            peer_message_2 |-> client_message_2,
                            ret |-> ServerDkg_finalize_second_round(
                                       own_2.s_server, own_1.S0, own_1.S1,
                                       client_message_1, client_message_2)])
    /\ UNCHANGED <<dkg, keys, sign, sessions>>

\* dkg/client.rs:126 on the two messages of an honest Server, of which the
\* transport may have replaced the share s_client or the commitment S1
CallClientDkgFinalize2Sent ==
    /\ call = None
    /\ \E c0 \in OwnDraw, c1 \in OwnDraw, s0 \in Scalar, s1 \in Scalar :
          LET own_1 == ClientDkg_start_first_round(c0, c1, 0)
              own_2 == ClientDkg_start_second_round(c0, c1)
              sent_1 == ServerDkg_start_first_round(s0, s1, 0).msg
              sent_2 == ServerDkg_start_second_round(s0, s1).msg
          IN  \E server_message_1 \in
                    {sent_1} \cup {[sent_1 EXCEPT !.S1 = S1] : S1 \in CompressedEdwardsY},
                 server_message_2 \in
                    {sent_2} \cup {[s_client |-> s] : s \in Scalar} :
                 /\ server_message_1 = sent_1 \/ server_message_2 = sent_2
                 /\ call' = Some([fn |-> "ClientDkg::finalize_second_round",
                                  sent |-> Some(<<sent_1, sent_2>>),
                                  own |-> [c_client |-> own_2.c_client,
                                           C0 |-> own_1.C0, C1 |-> own_1.C1],
                                  peer_message_1 |-> server_message_1,
                                  peer_message_2 |-> server_message_2,
                                  ret |-> ClientDkg_finalize_second_round(
                                             own_2.c_client, own_1.C0, own_1.C1,
                                             server_message_1, server_message_2)])
    /\ UNCHANGED <<dkg, keys, sign, sessions>>

\* dkg/server.rs:126 on the two messages of an honest Client, of which the
\* transport may have replaced the share c_server or the commitment C1
CallServerDkgFinalize2Sent ==
    /\ call = None
    /\ \E c0 \in Scalar, c1 \in Scalar, s0 \in OwnDraw, s1 \in OwnDraw :
          LET own_1 == ServerDkg_start_first_round(s0, s1, 0)
              own_2 == ServerDkg_start_second_round(s0, s1)
              sent_1 == ClientDkg_start_first_round(c0, c1, 0).msg
              sent_2 == ClientDkg_start_second_round(c0, c1).msg
          IN  \E client_message_1 \in
                    {sent_1} \cup {[sent_1 EXCEPT !.C1 = C1] : C1 \in CompressedEdwardsY},
                 client_message_2 \in
                    {sent_2} \cup {[c_server |-> s] : s \in Scalar} :
                 /\ client_message_1 = sent_1 \/ client_message_2 = sent_2
                 /\ call' = Some([fn |-> "ServerDkg::finalize_second_round",
                                  sent |-> Some(<<sent_1, sent_2>>),
                                  own |-> [s_server |-> own_2.s_server,
                                           S0 |-> own_1.S0, S1 |-> own_1.S1],
                                  peer_message_1 |-> client_message_1,
                                  peer_message_2 |-> client_message_2,
                                  ret |-> ServerDkg_finalize_second_round(
                                             own_2.s_server, own_1.S0, own_1.S1,
                                             client_message_1, client_message_2)])
    /\ UNCHANGED <<dkg, keys, sign, sessions>>

\* the keys lib.rs:63-65 hands to signing after an honest DKG with the
\* draws c0, c1, s0, s1
HonestKeys(c0, c1, s0, s1) ==
    LET client_1 == ClientDkg_start_first_round(c0, c1, 0)
        server_1 == ServerDkg_start_first_round(s0, s1, 0)
        client_2 == ClientDkg_start_second_round(c0, c1)
        server_2 == ServerDkg_start_second_round(s0, s1)
        client_keys == ClientDkg_finalize_second_round(
                          client_2.c_client, client_1.C0, client_1.C1,
                          server_1.msg, server_2.msg).val
        server_keys == ServerDkg_finalize_second_round(
                          server_2.s_server, server_1.S0, server_1.S1,
                          client_1.msg, client_2.msg).val
    IN  [p_client |-> client_keys.p_client,
         p_server |-> server_keys.p_server,
         P_joint |-> compress(client_keys.P_joint),
         P_client |-> compress(client_keys.P_client),
         P_server |-> compress(client_keys.P_server)]

\* the Server's draws in the DKG that precedes a call of combine_sigs; with
\* c0, c1 over all scalars every pair of shares occurs
ServerDkgDraw == OwnDraw

\* sign/client.rs:125 after an honest DKG and honest signing rounds; the
\* transport may have replaced the Server's z_server
CallClientCombineSent ==
    /\ call = None
    /\ \E c0 \in Scalar, c1 \in Scalar, s0 \in ServerDkgDraw, s1 \in ServerDkgDraw :
       \E k \in {HonestKeys(c0, c1, s0, s1)} :
       \E d_client \in OwnDraw, e_client \in OwnDraw,
          d_server \in Scalar, e_server \in Scalar, message \in Messages :
       \E client_1 \in {ClientSign_first_round(d_client, e_client).msg},
          server_1 \in {ServerSign_first_round(d_server, e_server).msg} :
       \E client_2 \in {ClientSign_second_round(k.p_client, k.P_joint, message,
                           d_client, e_client, client_1, server_1).val.msg},
          sent \in {ServerSign_second_round(k.p_server, k.P_joint, message,
                           d_server, e_server, client_1, server_1).val.msg} :
       \E z_server \in Scalar :
          call' = Some([fn |-> "ClientSign::combine_sigs",
                        sent |-> Some(sent),
                        P_joint |-> k.P_joint, P_peer |-> k.P_server,
                        message |-> message,
                        client_message_1 |-> client_1,
                        client_message_2 |-> client_2,
                        server_message_1 |-> server_1,
                        server_message_2 |-> [z_server |-> z_server],
                        ret |-> ClientSign_combine_sigs(
                                   k.P_joint, k.P_server, message,
                                   client_1, client_2,
                                   server_1, [z_server |-> z_server])])
    /\ UNCHANGED <<dkg, keys, sign, sessions>>

\* sign/server.rs:125 after an honest DKG and honest signing rounds; the
\* transport may have replaced the Client's z_client
CallServerCombineSent ==
    /\ call = None
    /\ \E c0 \in Scalar, c1 \in Scalar, s0 \in ServerDkgDraw, s1 \in ServerDkgDraw :
       \E k \in {HonestKeys(c0, c1, s0, s1)} :
       \E d_client \in Scalar, e_client \in Scalar,
          d_server \in OwnDraw, e_server \in OwnDraw, message \in Messages :
       \E client_1 \in {ClientSign_first_round(d_client, e_client).msg},
          server_1 \in {ServerSign_first_round(d_server, e_server).msg} :
       \E sent \in {ClientSign_second_round(k.p_client, k.P_joint, message,
                           d_client, e_client, client_1, server_1).val.msg},
          server_2 \in {ServerSign_second_round(k.p_server, k.P_joint, message,
                           d_server, e_server, client_1, server_1).val.msg} :
       \E z_client \in Scalar :
          call' = Some([fn |-> "ServerSign::combine_sigs",
                        sent |-> Some(sent),
                        P_joint |-> k.P_joint, P_peer |-> k.P_client,
                        message |-> message,
                        client_message_1 |-> client_1,
                        client_message_2 |-> [z_client |-> z_client],
                        server_message_1 |-> server_1,
                        server_message_2 |-> server_2,
                        ret |-> ServerSign_combine_sigs(
                                   k.P_joint, k.P_client, message,
                                   client_1, [z_client |-> z_client],
                                   server_1, server_2)])
    /\ UNCHANGED <<dkg, keys, sign, sessions>>

\* sign/client.rs:125 with the Client's own round-1 and round-2 messages and
\* any Server public share, nonce commitments and z_server
CallClientCombine ==
    /\ call = None
    /\ \E p_client \in OwnDraw, d_client \in OwnDraw, e_client \in OwnDraw,
          P_server \in CompressedEdwardsY,
          D_server \in CompressedEdwardsY, E_server \in CompressedEdwardsY,
          message \in Messages, z_server \in Scalar :
          LET Y == decompress(P_server)
              P_joint == compress(PointAdd(mul_base(p_client),
                                           IF Y = None THEN Identity ELSE Y[1]))
              client_1 == ClientSign_first_round(d_client, e_client)
              server_message_1 == [D_server |-> D_server, E_server |-> E_server]
              own_2 == ClientSign_second_round(p_client, P_joint, message,
                             d_client, e_client, client_1.msg, server_message_1)
              client_2 == IF IsOk(own_2) THEN own_2.val.msg ELSE [z_client |-> 0]
              server_message_2 == [z_server |-> z_server]
          IN  call' = Some([fn |-> "ClientSign::combine_sigs",
                            sent |-> None,
                            P_joint |-> P_joint, P_peer |-> P_server,
                            message |-> message,
                            client_message_1 |-> client_1.msg,
                            client_message_2 |-> client_2,
                            server_message_1 |-> server_message_1,
                            server_message_2 |-> server_message_2,
                            ret |-> ClientSign_combine_sigs(
                                       P_joint, P_server, message,
                                       client_1.msg, client_2,
                                       server_message_1, server_message_2)])
    /\ UNCHANGED <<dkg, keys, sign, sessions>>

\* sign/server.rs:125 with the Server's own round-1 and round-2 messages and
\* any Client public share, nonce commitments and z_client
CallServerCombine ==
    /\ call = None
    /\ \E p_server \in OwnDraw, d_server \in OwnDraw, e_server \in OwnDraw,
          P_client \in CompressedEdwardsY,
          D_client \in CompressedEdwardsY, E_client \in CompressedEdwardsY,
          message \in Messages, z_client \in Scalar :
          LET Y == decompress(P_client)
              P_joint == compress(PointAdd(mul_base(p_server),
                                           IF Y = None THEN Identity ELSE Y[1]))
              server_1 == ServerSign_first_round(d_server, e_server)
              client_message_1 == [D_client |-> D_client, E_client |-> E_client]
              own_2 == ServerSign_second_round(p_server, P_joint, message,
                             d_server, e_server, client_message_1, server_1.msg)
              server_2 == IF IsOk(own_2) THEN own_2.val.msg ELSE [z_server |-> 0]
              client_message_2 == [z_client |-> z_client]
          IN  call' = Some([fn |-> "ServerSign::combine_sigs",
                            sent |-> None,
                            P_joint |-> P_joint, P_peer |-> P_client,
                            message |-> message,
                            client_message_1 |-> client_message_1,
                            client_message_2 |-> client_message_2,
                            server_message_1 |-> server_1.msg,
                            server_message_2 |-> server_2,
                            ret |-> ServerSign_combine_sigs(
                                       P_joint, P_client, message,
                                       client_message_1, client_message_2,
                                       server_1.msg, server_2)])
    /\ UNCHANGED <<dkg, keys, sign, sessions>>

\* the bytes a party holds as its own round-1 commitment: what its
\* first_round produced, or bytes that decode to no point
OwnBytes(sent) == {sent, InvalidEncoding}

\* the peer encodings tried together with undecodable own commitments
DecodeCases == {compress(ED25519_BASEPOINT), NonCanonicalIdentity, InvalidEncoding}

\* sign/client.rs:68 with the Client's own share and nonces and any Server
\* nonce commitments
CallClientSignSecond ==
    /\ call = None
    /\ \E p_client \in OwnDraw, d_client \in OwnDraw, e_client \in OwnDraw,
          D_server \in CompressedEdwardsY, E_server \in CompressedEdwardsY,
          message \in Messages :
       \E own_1 \in {ClientSign_first_round(d_client, e_client).msg} :
       \E D_client \in OwnBytes(own_1.D_client), E_client \in OwnBytes(own_1.E_client) :
          LET P_joint == compress(mul_base(p_client))
              client_message == [D_client |-> D_client, E_client |-> E_client]
              server_message == [D_server |-> D_server, E_server |-> E_server]
          IN  call' = Some([fn |-> "ClientSign::second_round",
                            sent |-> None,
                            own |-> [p_client |-> p_client,
                                     d_client |-> d_client, e_client |-> e_client],
                            P_joint |-> P_joint,
                            message |-> message,
                            client_message_1 |-> client_message,
                            server_message_1 |-> server_message,
                            ret |-> ClientSign_second_round(
                                       p_client, P_joint, message, d_client, e_client,
                                       client_message, server_message)])
    /\ UNCHANGED <<dkg, keys, sign, sessions>>

\* sign/server.rs:68 with the Server's own share and nonces and any Client
\* nonce commitments
CallServerSignSecond ==
    /\ call = None
    /\ \E p_server \in OwnDraw, d_server \in OwnDraw, e_server \in OwnDraw,
          D_client \in CompressedEdwardsY, E_client \in CompressedEdwardsY,
          message \in Messages :
       \E own_1 \in {ServerSign_first_round(d_server, e_server).msg} :
       \E D_server \in OwnBytes(own_1.D_server), E_server \in OwnBytes(own_1.E_server) :
          LET P_joint == compress(mul_base(p_server))
              client_message == [D_client |-> D_client, E_client |-> E_client]
              server_message == [D_server |-> D_server, E_server |-> E_server]
          IN  call' = Some([fn |-> "ServerSign::second_round",
                            sent |-> None,
                            own |-> [p_server |-> p_server,
                                     d_server |-> d_server, e_server |-> e_server],
                            P_joint |-> P_joint,
                            message |-> message,
                            client_message_1 |-> client_message,
                            server_message_1 |-> server_message,
                            ret |-> ServerSign_second_round(
                                       p_server, P_joint, message, d_server, e_server,
                                       client_message, server_message)])
    /\ UNCHANGED <<dkg, keys, sign, sessions>>

\* sign/client.rs:125 when the Client's copy of its own round-1 message holds
\* an undecodable commitment
CallClientCombineOwnUndecodable ==
    /\ call = None
    /\ \E d_client \in OwnDraw, e_client \in OwnDraw,
          P_server \in DecodeCases, D_server \in DecodeCases, E_server \in DecodeCases,
          z_client \in OwnDraw, z_server \in OwnDraw :
       \E own_1 \in {ClientSign_first_round(d_client, e_client).msg} :
       \E D_client \in OwnBytes(own_1.D_client), E_client \in OwnBytes(own_1.E_client) :
          /\ D_client = InvalidEncoding \/ E_client = InvalidEncoding
          /\ LET P_joint == compress(Identity)
                 client_message_1 == [D_client |-> D_client, E_client |-> E_client]
                 server_message_1 == [D_server |-> D_server, E_server |-> E_server]
             IN  call' = Some([fn |-> "ClientSign::combine_sigs",
                               sent |-> None,
                               P_joint |-> P_joint, P_peer |-> P_server,
                               message |-> <<>>,
                               client_message_1 |-> client_message_1,
                               client_message_2 |-> [z_client |-> z_client],
                               server_message_1 |-> server_message_1,
                               server_message_2 |-> [z_server |-> z_server],
                               ret |-> ClientSign_combine_sigs(
                                          P_joint, P_server, <<>>,
                                          client_message_1, [z_client |-> z_client],
                                          server_message_1, [z_server |-> z_server])])
    /\ UNCHANGED <<dkg, keys, sign, sessions>>

\* sign/server.rs:125 when the Server's copy of its own round-1 message holds
\* an undecodable commitment
CallServerCombineOwnUndecodable ==
    /\ call = None
    /\ \E d_server \in OwnDraw, e_server \in OwnDraw,
          P_client \in DecodeCases, D_client \in DecodeCases, E_client \in DecodeCases,
          z_client \in OwnDraw, z_server \in OwnDraw :
       \E own_1 \in {ServerSign_first_round(d_server, e_server).msg} :
       \E D_server \in OwnBytes(own_1.D_server), E_server \in OwnBytes(own_1.E_server) :
          /\ D_server = InvalidEncoding \/ E_server = InvalidEncoding
          /\ LET P_joint == compress(Identity)
                 client_message_1 == [D_client |-> D_client, E_client |-> E_client]
                 server_message_1 == [D_server |-> D_server, E_server |-> E_server]
             IN  call' = Some([fn |-> "ServerSign::combine_sigs",
                               sent |-> None,
                               P_joint |-> P_joint, P_peer |-> P_client,
                               message |-> <<>>,
                               client_message_1 |-> client_message_1,
                               client_message_2 |-> [z_client |-> z_client],
                               server_message_1 |-> server_message_1,
                               server_message_2 |-> [z_server |-> z_server],
                               ret |-> ServerSign_combine_sigs(
                                          P_joint, P_client, <<>>,
                                          client_message_1, [z_client |-> z_client],
                                          server_message_1, [z_server |-> z_server])])
    /\ UNCHANGED <<dkg, keys, sign, sessions>>

NextCall ==
    \/ CallClientDkgFinalize1 \/ CallServerDkgFinalize1
    \/ CallClientDkgFinalize1Sent \/ CallServerDkgFinalize1Sent
    \/ CallClientDkgFinalize2 \/ CallServerDkgFinalize2
    \/ CallClientDkgFinalize2Sent \/ CallServerDkgFinalize2Sent
    \/ CallClientCombineSent \/ CallServerCombineSent
    \/ CallClientCombine \/ CallServerCombine
    \/ CallClientSignSecond \/ CallServerSignSecond
    \/ CallClientCombineOwnUndecodable \/ CallServerCombineOwnUndecodable

SpecCall == Init /\ [][NextCall]_vars

\* ------------------------------------------------------------------------
\* A party's next call in the same session (SpecSession): after one call of a
\* verifying function the party either goes on to finalize_second_round with
\* the round-1 message it just examined, or calls the same function again
\* with the same arguments.  `call` then holds both calls in order.
\* ------------------------------------------------------------------------
\* dkg/client.rs:126 after dkg/client.rs:93, on the same DkgServerRound1 and
\* any DkgServerRound2; no value returned by finalize_first_round is an
\* argument of finalize_second_round
ClientDkgAfterFinalize1 ==
    /\ Len(call) = 1
    /\ call[1].fn = "ClientDkg::finalize_first_round"
    /\ \E c0 \in OwnDraw, c1 \in OwnDraw, s_client \in Scalar :
          LET own_1 == ClientDkg_start_first_round(c0, c1, 0)
              own_2 == ClientDkg_start_second_round(c0, c1)
              server_message_1 == call[1].peer_message_1
              server_message_2 == [s_client |-> s_client]
          IN  call' = Append(call,
                          [fn |-> "ClientDkg::finalize_second_round",
                           sent |-> None,
                           own |-> [c_client |-> own_2.c_client,
                                    C0 |-> own_1.C0, C1 |-> own_1.C1],
                           peer_message_1 |-> server_message_1,
                           peer_message_2 |-> server_message_2,
                           ret |-> ClientDkg_finalize_second_round(
                                      own_2.c_client, own_1.C0, own_1.C1,
                                      server_message_1, server_message_2)])
    /\ UNCHANGED <<dkg, keys, sign, sessions>>

\* dkg/server.rs:126 after dkg/server.rs:93, on the same DkgClientRound1 and
\* any DkgClientRound2
ServerDkgAfterFinalize1 ==
    /\ Len(call) = 1
    /\ call[1].fn = "ServerDkg::finalize_first_round"
    /\ \E s0 \in OwnDraw, s1 \in OwnDraw, c_server \in Scalar :
          LET own_1 == ServerDkg_start_first_round(s0, s1, 0)
              own_2 == ServerDkg_start_second_round(s0, s1)
              client_message_1 == call[1].peer_message_1
              client_message_2 == [c_server |-> c_server]
          IN  call' = Append(call,
                          [fn |-> "ServerDkg::finalize_second_round",
                           sent |-> None,
                           own |-> [s_server |-> own_2.s_server,
                                    S0 |-> own_1.S0, S1 |-> own_1.S1],
                           peer_message_1 |-> client_message_1,
                           peer_message_2 |-> client_message_2,
                           ret |-> ServerDkg_finalize_second_round(
                                      own_2.s_server, own_1.S0, own_1.S1,
                                      client_message_1, client_message_2)])
    /\ UNCHANGED <<dkg, keys, sign, sessions>>

\* a second attempt that lets through what the first call rejected
Apply_SecondAttempt(rec) ==
    IF rec.ret.tag = "Err" THEN Ok(<<>>) ELSE rec.ret

\* the function of a recorded call on the recorded arguments; none of the
\* verifying functions takes anything else: no draw of OsRng, no static
Apply(rec) ==
    CASE rec.fn = "ClientDkg::finalize_first_round" ->
            ClientDkg_finalize_first_round(rec.peer_message_1)
      [] rec.fn = "ServerDkg::finalize_first_round" ->
            ServerDkg_finalize_first_round(rec.peer_message_1)
      [] rec.fn = "ClientDkg::finalize_second_round" ->
            ClientDkg_finalize_second_round(
               rec.own.c_client, rec.own.C0, rec.own.C1,
               rec.peer_message_1, rec.peer_message_2)
      [] rec.fn = "ServerDkg::finalize_second_round" ->
            ServerDkg_finalize_second_round(
               rec.own.s_server, rec.own.S0, rec.own.S1,
               rec.peer_message_1, rec.peer_message_2)
      [] rec.fn = "ClientSign::second_round" ->
            ClientSign_second_round(
               rec.own.p_client, rec.P_joint, rec.message,
               rec.own.d_client, rec.own.e_client,
               rec.client_message_1, rec.server_message_1)
      [] rec.fn = "ServerSign::second_round" ->
            ServerSign_second_round(
               rec.own.p_server, rec.P_joint, rec.message,
               rec.own.d_server, rec.own.e_server,
               rec.client_message_1, rec.server_message_1)
      [] rec.fn = "ClientSign::combine_sigs" ->
            ClientSign_combine_sigs(
               rec.P_joint, rec.P_peer, rec.message,
               rec.client_message_1, rec.client_message_2,
               rec.server_message_1, rec.server_message_2)
      [] rec.fn = "ServerSign::combine_sigs" ->
            ServerSign_combine_sigs(
               rec.P_joint, rec.P_peer, rec.message,
               rec.client_message_1, rec.client_message_2,
               rec.server_message_1, rec.server_message_2)

\* the party calls the same function again with the same arguments
RepeatCall ==
    /\ Len(call) = 1
    /\ call' = Append(call, [call[1] EXCEPT !.ret = Apply(call[1])])
    /\ UNCHANGED <<dkg, keys, sign, sessions>>

NextSession ==
    \/ CallClientDkgFinalize1 \/ CallServerDkgFinalize1
    \/ CallClientDkgFinalize1Sent \/ CallServerDkgFinalize1Sent
    \/ CallClientDkgFinalize2Sent \/ CallServerDkgFinalize2Sent
    \/ CallClientSignSecond \/ CallServerSignSecond
    \/ CallClientCombineSent \/ CallServerCombineSent
    \/ ClientDkgAfterFinalize1 \/ ServerDkgAfterFinalize1
    \/ RepeatCall

SpecSession == Init /\ [][NextSession]_vars

\* ------------------------------------------------------------------------

\* Signing sessions over the same key shares (SpecReuse): after an honest
\* DKG the two parties run signing session after signing session with the
\* shares of that DKG; the transport may alter one message of a session on
\* its way to the receiver.
\* ------------------------------------------------------------------------
\* lib.rs:15-66: an honest DKG, whose keys go on to signing
BeginSigningAfterDkg ==
    /\ keys = None
    /\ \E c0 \in Scalar, c1 \in Scalar, s0 \in ServerDkgDraw, s1 \in ServerDkgDraw :
          keys' = Some(HonestKeys(c0, c1, s0, s1))
    /\ \E m \in Messages : sign' = [SignInit EXCEPT !.message = Some(m)]
    /\ UNCHANGED <<dkg, call, sessions>>

\* lib.rs:68 with the nonces of a new session
ClientSignFirstFresh ==
    /\ keys # None
    /\ sign.client_r1 = None
    /\ \E d \in Scalar, e \in OwnDraw :
          sign' = [sign EXCEPT !.client_r1 = Some(ClientSign_first_round(d, e))]
    /\ UNCHANGED <<dkg, keys, call, sessions>>

\* lib.rs:69 with the nonces of a new session
ServerSignFirstFresh ==
    /\ keys # None
    /\ sign.server_r1 = None
    /\ \E d \in Scalar, e \in OwnDraw :
          sign' = [sign EXCEPT !.server_r1 = Some(ServerSign_first_round(d, e))]
    /\ UNCHANGED <<dkg, keys, call, sessions>>

\* the round-1 message of a party that has finished its own second_round
\* reaches the peer with an undecodable D
TamperNonceCommitment ==
    /\ ~sessions.tampered
    /\ \/ /\ sign.server_r2 # None /\ sign.client_r2 = None
          /\ sign' = [sign EXCEPT !.server_r1[1].msg.D_server = InvalidEncoding]
       \/ /\ sign.client_r2 # None /\ sign.server_r2 = None
          /\ sign' = [sign EXCEPT !.client_r1[1].msg.D_client = InvalidEncoding]
    /\ sessions' = [sessions EXCEPT !.tampered = TRUE]
    /\ UNCHANGED <<dkg, keys, call>>

\* the round-2 message of a party that has finished its own combine_sigs
\* reaches the peer with another scalar
TamperPartialSignature ==
    /\ ~sessions.tampered
    /\ SignRoundsDone
    /\ \/ /\ sign.server_comb # None /\ sign.client_comb = None
          /\ \E z \in Scalar \ {sign.server_r2[1].val.msg.z_server} :
                sign' = [sign EXCEPT !.server_r2[1].val.msg.z_server = z]
       \/ /\ sign.client_comb # None /\ sign.server_comb = None
          /\ \E z \in Scalar \ {sign.client_r2[1].val.msg.z_client} :
                sign' = [sign EXCEPT !.client_r2[1].val.msg.z_client = z]
    /\ sessions' = [sessions EXCEPT !.tampered = TRUE]
    /\ UNCHANGED <<dkg, keys, call>>

\* a session end that wipes the Client's share when a call of the session
\* returned an error
EndSession_Zeroize ==
    /\ sign.client_r2 # None /\ sign.server_r2 # None
    /\ \/ /\ ~SignRoundsDone
          /\ sessions' = [ended |-> sessions.ended
                                      \cup ({IF IsOk(sign.client_r2[1]) THEN "Ok"
                                                ELSE sign.client_r2[1].err,
                                             IF IsOk(sign.server_r2[1]) THEN "Ok"
                                                ELSE sign.server_r2[1].err} \ {"Ok"}),
                          tampered |-> FALSE]
          /\ keys' = [keys EXCEPT ![1].p_client = 0]
       \/ /\ sign.client_comb # None /\ sign.server_comb # None
          /\ sessions' = [ended |-> sessions.ended
                                      \cup {IF IsOk(sign.client_comb[1]) THEN "Ok"
                                               ELSE sign.client_comb[1].err,
                                            IF IsOk(sign.server_comb[1]) THEN "Ok"
                                               ELSE sign.server_comb[1].err},
                          tampered |-> FALSE]
          /\ keys' = IF IsOk(sign.client_comb[1]) /\ IsOk(sign.server_comb[1])
                     THEN keys ELSE [keys EXCEPT ![1].p_client = 0]
    /\ \E m \in Messages : sign' = [SignInit EXCEPT !.message = Some(m)]
    /\ UNCHANGED <<dkg, call>>

\* "Ok" or the SignError a call returned
Outcome(r) == IF IsOk(r) THEN "Ok" ELSE r.err

\* the session is over: both parties combined, or a second_round failed.
\* Every argument of the signing functions is borrowed (`&Scalar`,
\* `&CompressedEdwardsY`), so the next session starts from the same keys.
EndSession ==
    /\ sign.client_r2 # None /\ sign.server_r2 # None
    /\ \/ /\ ~SignRoundsDone
          /\ sessions' = [ended |-> sessions.ended
                                      \cup ({Outcome(sign.client_r2[1]),
                                             Outcome(sign.server_r2[1])} \ {"Ok"}),
                          tampered |-> FALSE]
       \/ /\ sign.client_comb # None /\ sign.server_comb # None
          /\ sessions' = [ended |-> sessions.ended
                                      \cup {Outcome(sign.client_comb[1]),
                                            Outcome(sign.server_comb[1])},
                          tampered |-> FALSE]
    /\ \E m \in Messages : sign' = [SignInit EXCEPT !.message = Some(m)]
    /\ UNCHANGED <<dkg, keys, call>>

NextReuse ==
    \/ BeginSigningAfterDkg
    \/ ClientSignFirstFresh \/ ServerSignFirstFresh
    \/ ClientSignSecond \/ ServerSignSecond
    \/ ClientCombine \/ ServerCombine
    \/ TamperNonceCommitment \/ TamperPartialSignature
    \/ EndSession

SpecReuse == Init /\ [][NextReuse]_vars

\* ------------------------------------------------------------------------

\* The Display implementations (SpecDisplay): dkg/client.rs:27-48,
\* dkg/server.rs:27-48, sign/client.rs:22-41, sign/server.rs:22-41.  A field
\* is the 32-byte array as_bytes() returns; a text is a sequence of
\* characters.
\* ------------------------------------------------------------------------
\* the length of CompressedEdwardsY::as_bytes() and Scalar::as_bytes()
FieldLen == 32

\* the alphabet of BASE64_STANDARD, and its padding character
Alphabet ==
    <<"A", "B", "C", "D", "E", "F", "G", "H", "I", "J", "K", "L", "M",
      "N", "O", "P", "Q", "R", "S", "T", "U", "V", "W", "X", "Y", "Z",
      "a", "b", "c", "d", "e", "f", "g", "h", "i", "j", "k", "l", "m",
      "n", "o", "p", "q", "r", "s", "t", "u", "v", "w", "x", "y", "z",
      "0", "1", "2", "3", "4", "5", "6", "7", "8", "9", "+", "/">>
PadChar == "="
Sextet(n) == Alphabet[n + 1]

\* the engine without padding, which leaves the last block short
RECURSIVE BASE64_STANDARD_NO_PAD_encode(_)
BASE64_STANDARD_NO_PAD_encode(bytes) ==
    IF Len(bytes) = 0 THEN <<>>
    ELSE IF Len(bytes) = 1
    THEN <<Sextet(bytes[1] \div 4), Sextet((bytes[1] % 4) * 16)>>
    ELSE IF Len(bytes) = 2
    THEN <<Sextet(bytes[1] \div 4),
           Sextet((bytes[1] % 4) * 16 + bytes[2] \div 16),
           Sextet((bytes[2] % 16) * 4)>>
    ELSE <<Sextet(bytes[1] \div 4),
           Sextet((bytes[1] % 4) * 16 + bytes[2] \div 16),
           Sextet((bytes[2] % 16) * 4 + bytes[3] \div 64),
           Sextet(bytes[3] % 64)>>
         \o BASE64_STANDARD_NO_PAD_encode(SubSeq(bytes, 4, Len(bytes)))

\* BASE64_STANDARD.encode: three bytes give four characters, a last group of
\* one or two bytes is padded to four characters with '='
RECURSIVE BASE64_STANDARD_encode(_)
BASE64_STANDARD_encode(bytes) ==
    IF Len(bytes) = 0 THEN <<>>
    ELSE IF Len(bytes) = 1
    THEN <<Sextet(bytes[1] \div 4), Sextet((bytes[1] % 4) * 16), PadChar, PadChar>>
    ELSE IF Len(bytes) = 2
    THEN <<Sextet(bytes[1] \div 4),
           Sextet((bytes[1] % 4) * 16 + bytes[2] \div 16),
           Sextet((bytes[2] % 16) * 4),
           PadChar>>
    ELSE <<Sextet(bytes[1] \div 4),
           Sextet((bytes[1] % 4) * 16 + bytes[2] \div 16),
           Sextet((bytes[2] % 16) * 4 + bytes[3] \div 64),
           Sextet(bytes[3] % 64)>>
         \o BASE64_STANDARD_encode(SubSeq(bytes, 4, Len(bytes)))

\* dkg/client.rs:27-34
Display_DkgClientRound1(m) ==
    BASE64_STANDARD_encode(m.C0) \o BASE64_STANDARD_encode(m.C1)
       \o BASE64_STANDARD_encode(m.R) \o BASE64_STANDARD_encode(m.mu)
\* dkg/client.rs:44-48
Display_DkgClientRound2(m) == BASE64_STANDARD_encode(m.c_server)
\* dkg/server.rs:27-34
Display_DkgServerRound1(m) ==
    BASE64_STANDARD_encode(m.S0) \o BASE64_STANDARD_encode(m.S1)
       \o BASE64_STANDARD_encode(m.R) \o BASE64_STANDARD_encode(m.mu)
\* dkg/server.rs:44-48
Display_DkgServerRound2(m) == BASE64_STANDARD_encode(m.s_client)
\* sign/client.rs:22-27
Display_SignClientRound1(m) ==
    BASE64_STANDARD_encode(m.D_client) \o BASE64_STANDARD_encode(m.E_client)
\* sign/client.rs:37-41
Display_SignClientRound2(m) == BASE64_STANDARD_encode(m.z_client)
\* sign/server.rs:22-27
Display_SignServerRound1(m) ==
    BASE64_STANDARD_encode(m.D_server) \o BASE64_STANDARD_encode(m.E_server)
\* sign/server.rs:37-41
Display_SignServerRound2(m) == BASE64_STANDARD_encode(m.z_server)

\* the 32-byte arrays shown: all zero, all 0xFF, the little-endian encoding
\* of a small number, and two arrays whose bytes all differ
FieldSamples ==
    {[i \in 1..FieldLen |-> 0],
     [i \in 1..FieldLen |-> 255],
     [i \in 1..FieldLen |-> IF i = 1 THEN ED25519_BASEPOINT ELSE 0],
     [i \in 1..FieldLen |-> (7 * i + 3) % 256],
     [i \in 1..FieldLen |-> (251 * i + 128) % 256]}

\* mu of a DKG round-1 message takes one value here; the three compressed
\* points range over all samples
FixedSample == [i \in 1..FieldLen |-> (7 * i + 3) % 256]

ShowDkgClientRound1 ==
    /\ call = None
    /\ \E C0 \in FieldSamples, C1 \in FieldSamples, R \in FieldSamples, mu \in {FixedSample} :
          LET m == [C0 |-> C0, C1 |-> C1, R |-> R, mu |-> mu]
          IN  call' = Some([fn |-> "Display for DkgClientRound1", message |-> m,
                            text |-> Display_DkgClientRound1(m)])
    /\ UNCHANGED <<dkg, keys, sign, sessions>>

ShowDkgClientRound2 ==
    /\ call = None
    /\ \E c_server \in FieldSamples :
          LET m == [c_server |-> c_server]
          IN  call' = Some([fn |-> "Display for DkgClientRound2", message |-> m,
                            text |-> Display_DkgClientRound2(m)])
    /\ UNCHANGED <<dkg, keys, sign, sessions>>

ShowDkgServerRound1 ==
    /\ call = None
    /\ \E S0 \in FieldSamples, S1 \in FieldSamples, R \in FieldSamples, mu \in {FixedSample} :
          LET m == [S0 |-> S0, S1 |-> S1, R |-> R, mu |-> mu]
          IN  call' = Some([fn |-> "Display for DkgServerRound1", message |-> m,
                            text |-> Display_DkgServerRound1(m)])
    /\ UNCHANGED <<dkg, keys, sign, sessions>>

ShowDkgServerRound2 ==
    /\ call = None
    /\ \E s_client \in FieldSamples :
          LET m == [s_client |-> s_client]
          IN  call' = Some([fn |-> "Display for DkgServerRound2", message |-> m,
                            text |-> Display_DkgServerRound2(m)])
    /\ UNCHANGED <<dkg, keys, sign, sessions>>

ShowSignClientRound1 ==
    /\ call = None
    /\ \E D_client \in FieldSamples, E_client \in FieldSamples :
          LET m == [D_client |-> D_client, E_client |-> E_client]
          IN  call' = Some([fn |-> "Display for SignClientRound1", message |-> m,
                            text |-> Display_SignClientRound1(m)])
    /\ UNCHANGED <<dkg, keys, sign, sessions>>

ShowSignClientRound2 ==
    /\ call = None
    /\ \E z_client \in FieldSamples :
          LET m == [z_client |-> z_client]
          IN  call' = Some([fn |-> "Display for SignClientRound2", message |-> m,
                            text |-> Display_SignClientRound2(m)])
    /\ UNCHANGED <<dkg, keys, sign, sessions>>

ShowSignServerRound1 ==
    /\ call = None
    /\ \E D_server \in FieldSamples, E_server \in FieldSamples :
          LET m == [D_server |-> D_server, E_server |-> E_server]
          IN  call' = Some([fn |-> "Display for SignServerRound1", message |-> m,
                            text |-> Display_SignServerRound1(m)])
    /\ UNCHANGED <<dkg, keys, sign, sessions>>

ShowSignServerRound2 ==
    /\ call = None
    /\ \E z_server \in FieldSamples :
          LET m == [z_server |-> z_server]
          IN  call' = Some([fn |-> "Display for SignServerRound2", message |-> m,
                            text |-> Display_SignServerRound2(m)])
    /\ UNCHANGED <<dkg, keys, sign, sessions>>

NextDisplay ==
    \/ ShowDkgClientRound1 \/ ShowDkgClientRound2
    \/ ShowDkgServerRound1 \/ ShowDkgServerRound2
    \/ ShowSignClientRound1 \/ ShowSignClientRound2
    \/ ShowSignServerRound1 \/ ShowSignServerRound2

SpecDisplay == Init /\ [][NextDisplay]_vars

\* ------------------------------------------------------------------------

\* The binding-factor hash inputs (SpecHash): sign/client.rs:80-92 and the
\* same lines of second_round and combine_sigs on both sides.
\* ------------------------------------------------------------------------
\* message bytes that also occur as the first byte of a tag (115, 99) and as
\* the byte of a compressed point (0)
HashMessageBytes == {0, 99, 115}
HashMessages == UNION {[1..n -> HashMessageBytes] : n \in 0..(MaxMsgLen + 1)}
\* the compressed points hashed
HashFields == {compress(Identity), compress(ED25519_BASEPOINT),
               NonCanonicalIdentity, InvalidEncoding}

\* sign/client.rs:80-85
HashBindingClient ==
    /\ call = None
    /\ \E message \in HashMessages, D_client \in HashFields, E_client \in HashFields :
          LET client_message == [D_client |-> D_client, E_client |-> E_client]
          IN  call' = Some([fn |-> "rho_client",
                            message |-> message,
                            D |-> D_client, E |-> E_client,
                            input |-> BindingClientInput(message, client_message)])
    /\ UNCHANGED <<dkg, keys, sign, sessions>>

\* sign/client.rs:87-92
HashBindingServer ==
    /\ call = None
    /\ \E message \in HashMessages, D_server \in HashFields, E_server \in HashFields :
          LET server_message == [D_server |-> D_server, E_server |-> E_server]
          IN  call' = Some([fn |-> "rho_server",
                            message |-> message,
                            D |-> D_server, E |-> E_server,
                            input |-> BindingServerInput(message, server_message)])
    /\ UNCHANGED <<dkg, keys, sign, sessions>>

NextHash == HashBindingClient \/ HashBindingServer

SpecHash == Init /\ [][NextHash]_vars

\* ------------------------------------------------------------------------

\* A round-1 DKG message handed back to the party that produced it
\* (SpecReflect): the party calls start_first_round, and the message comes
\* back to its own finalize_first_round as if it were the peer's, or goes to
\* the peer's finalize_first_round.  The four fields of DkgClientRound1 and
\* DkgServerRound1 have the same types in the same order.
\* ------------------------------------------------------------------------
AsServerRound1(client_message) ==
    [S0 |-> client_message.C0, S1 |-> client_message.C1,
     R |-> client_message.R, mu |-> client_message.mu]
AsClientRound1(server_message) ==
    [C0 |-> server_message.S0, C1 |-> server_message.S1,
     R |-> server_message.R, mu |-> server_message.mu]

\* dkg/client.rs:56
CallClientDkgStart1 ==
    /\ call = None
    /\ \E c0 \in Scalar, c1 \in Scalar, k \in Scalar :
          call' = Some([fn |-> "ClientDkg::start_first_round",
                        own |-> [first |-> c0, second |-> c1, k |-> k],
                        ret |-> ClientDkg_start_first_round(c0, c1, k).msg])
    /\ UNCHANGED <<dkg, keys, sign, sessions>>

\* dkg/server.rs:56
CallServerDkgStart1 ==
    /\ call = None
    /\ \E s0 \in Scalar, s1 \in Scalar, k \in Scalar :
          call' = Some([fn |-> "ServerDkg::start_first_round",
                        own |-> [first |-> s0, second |-> s1, k |-> k],
                        ret |-> ServerDkg_start_first_round(s0, s1, k).msg])
    /\ UNCHANGED <<dkg, keys, sign, sessions>>

\* dkg/client.rs:93 on the Client's own message
ReflectToClientDkg ==
    /\ Len(call) = 1
    /\ call[1].fn = "ClientDkg::start_first_round"
    /\ LET server_message == AsServerRound1(call[1].ret)
       IN  call' = Append(call, [fn |-> "ClientDkg::finalize_first_round",
                                 sent |-> None,
                                 peer_message_1 |-> server_message,
                                 ret |-> ClientDkg_finalize_first_round(server_message)])
    /\ UNCHANGED <<dkg, keys, sign, sessions>>

\* dkg/server.rs:93 on the Server's own message
ReflectToServerDkg ==
    /\ Len(call) = 1
    /\ call[1].fn = "ServerDkg::start_first_round"
    /\ LET client_message == AsClientRound1(call[1].ret)
       IN  call' = Append(call, [fn |-> "ServerDkg::finalize_first_round",
                                 sent |-> None,
                                 peer_message_1 |-> client_message,
                                 ret |-> ServerDkg_finalize_first_round(client_message)])
    /\ UNCHANGED <<dkg, keys, sign, sessions>>

\* dkg/server.rs:93 on the Client's message
DeliverToServerDkg ==
    /\ Len(call) = 1
    /\ call[1].fn = "ClientDkg::start_first_round"
    /\ call' = Append(call, [fn |-> "ServerDkg::finalize_first_round",
                             sent |-> Some(call[1].ret),
                             peer_message_1 |-> call[1].ret,
                             ret |-> ServerDkg_finalize_first_round(call[1].ret)])
    /\ UNCHANGED <<dkg, keys, sign, sessions>>

\* dkg/client.rs:93 on the Server's message
DeliverToClientDkg ==
    /\ Len(call) = 1
    /\ call[1].fn = "ServerDkg::start_first_round"
    /\ call' = Append(call, [fn |-> "ClientDkg::finalize_first_round",
                             sent |-> Some(call[1].ret),
                             peer_message_1 |-> call[1].ret,
                             ret |-> ClientDkg_finalize_first_round(call[1].ret)])
    /\ UNCHANGED <<dkg, keys, sign, sessions>>

NextReflect ==
    \/ CallClientDkgStart1 \/ CallServerDkgStart1
    \/ ReflectToClientDkg \/ ReflectToServerDkg
    \/ DeliverToServerDkg \/ DeliverToClientDkg

SpecReflect == Init /\ [][NextReflect]_vars

\* ------------------------------------------------------------------------

\* Both parties' combine_sigs on the same four signing messages
\* (SpecCombine): after an honest DKG and honest signing rounds either
\* partial signature may have been altered before the parties combine.
\* ------------------------------------------------------------------------
\* the Server's draws in the signing rounds that precede the two calls
ServerNonceDraw == Scalar

\* sign/client.rs:125 on the messages of a session
ClientCombineRecord(s) ==
    [fn |-> "ClientSign::combine_sigs",
     sent |-> Some(s.honest.server_message_2),
     P_joint |-> s.P_joint, P_peer |-> s.P_server,
     message |-> s.message,
     client_message_1 |-> s.client_message_1,
     client_message_2 |-> s.client_message_2,
     server_message_1 |-> s.server_message_1,
     server_message_2 |-> s.server_message_2,
     session |-> s,
     ret |-> ClientSign_combine_sigs(
                s.P_joint, s.P_server, s.message,
                s.client_message_1, s.client_message_2,
                s.server_message_1, s.server_message_2)]

\* sign/server.rs:125 on the messages of a session
ServerCombineRecord(s) ==
    [fn |-> "ServerSign::combine_sigs",
     sent |-> Some(s.honest.client_message_2),
     P_joint |-> s.P_joint, P_peer |-> s.P_client,
     message |-> s.message,
     client_message_1 |-> s.client_message_1,
     client_message_2 |-> s.client_message_2,
     server_message_1 |-> s.server_message_1,
     server_message_2 |-> s.server_message_2,
     session |-> s,
     ret |-> ServerSign_combine_sigs(
                s.P_joint, s.P_client, s.message,
                s.client_message_1, s.client_message_2,
                s.server_message_1, s.server_message_2)]

\* lib.rs:13-103 with the two partial signatures replaced by z_client and
\* z_server
SigningSession(c0, c1, d_server, message, z_client, z_server) ==
    LET k == HonestKeys(c0, c1, 1, 1)
        client_1 == ClientSign_first_round(1, 1).msg
        server_1 == ServerSign_first_round(d_server, 1).msg
        client_2 == ClientSign_second_round(k.p_client, k.P_joint, message,
                                            1, 1, client_1, server_1).val.msg
        server_2 == ServerSign_second_round(k.p_server, k.P_joint, message,
                                            d_server, 1, client_1, server_1).val.msg
    IN  [P_joint |-> k.P_joint, P_client |-> k.P_client, P_server |-> k.P_server,
         message |-> message,
         client_message_1 |-> client_1,
         client_message_2 |-> [z_client |-> z_client],
         server_message_1 |-> server_1,
         server_message_2 |-> [z_server |-> z_server],
         honest |-> [client_message_2 |-> client_2, server_message_2 |-> server_2]]

\* the Client combines first
ClientCombineFirst ==
    /\ call = None
    /\ \E c0 \in Scalar, c1 \in Scalar, d_server \in ServerNonceDraw,
          message \in Messages, z_client \in Scalar, z_server \in Scalar :
          call' = Some(ClientCombineRecord(
                          SigningSession(c0, c1, d_server, message, z_client, z_server)))
    /\ UNCHANGED <<dkg, keys, sign, sessions>>

\* the Server combines first
ServerCombineFirst ==
    /\ call = None
    /\ \E c0 \in Scalar, c1 \in Scalar, d_server \in ServerNonceDraw,
          message \in Messages, z_client \in Scalar, z_server \in Scalar :
          call' = Some(ServerCombineRecord(
                          SigningSession(c0, c1, d_server, message, z_client, z_server)))
    /\ UNCHANGED <<dkg, keys, sign, sessions>>

\* the Server combines the messages the Client has combined
ServerCombineSecond ==
    /\ Len(call) = 1
    /\ call[1].fn = "ClientSign::combine_sigs"
    /\ call' = Append(call, ServerCombineRecord(call[1].session))
    /\ UNCHANGED <<dkg, keys, sign, sessions>>

\* the Client combines the messages the Server has combined
ClientCombineSecond ==
    /\ Len(call) = 1
    /\ call[1].fn = "ServerSign::combine_sigs"
    /\ call' = Append(call, ClientCombineRecord(call[1].session))
    /\ UNCHANGED <<dkg, keys, sign, sessions>>

NextCombine ==
    \/ ClientCombineFirst \/ ServerCombineFirst
    \/ ServerCombineSecond \/ ClientCombineSecond

SpecCombine == Init /\ [][NextCombine]_vars

\* ------------------------------------------------------------------------

\* Properties of the verifying functions (SpecCall)
\* ------------------------------------------------------------------------
Called(fns) == call # None /\ call[1].fn \in fns
ByClient == call[1].fn \in {"ClientDkg::finalize_first_round",
                            "ClientDkg::finalize_second_round",
                            "ClientSign::second_round",
                            "ClientSign::combine_sigs"}
\* the peer's first and second round-1 commitment (S0, S1 / C0, C1)
FirstCommitment ==
    IF ByClient THEN call[1].peer_message_1.S0 ELSE call[1].peer_message_1.C0
SecondCommitment ==
    IF ByClient THEN call[1].peer_message_1.S1 ELSE call[1].peer_message_1.C1
\* e = H(peer tag || C0 bytes || R bytes)
ProofChallenge ==
    from_hash((IF ByClient THEN ServerTag ELSE ClientTag)
              \o FirstCommitment \o call[1].peer_message_1.R)
\* the points s.B, s in 0..l-1
InSubgroup(P) == \E s \in Scalar : P = mul_base(s)

Finalize1 == {"ClientDkg::finalize_first_round", "ServerDkg::finalize_first_round"}

\* the two consequences C7 draws: the unmodified message of the peer's
\* start_first_round is accepted, and with any other mu it is rejected
C7_SentCases ==
    Called(Finalize1) /\ call[1].sent # None =>
       /\ call[1].peer_message_1 = call[1].sent[1] => IsOk(call[1].ret)
       /\ call[1].peer_message_1.mu # call[1].sent[1].mu =>
             call[1].ret = Err("ProofOfKnowledge")

Finalize2 == {"ClientDkg::finalize_second_round", "ServerDkg::finalize_second_round"}
PeerShare ==
    IF ByClient THEN call[1].peer_message_2.s_client ELSE call[1].peer_message_2.c_server
CommitmentsDecode ==
    decompress(FirstCommitment) # None /\ decompress(SecondCommitment) # None

\* C8: with decodable commitments the Client's finalize_second_round returns
\* ShareVerification exactly when s_client.B # S0 + S1, the Server's exactly
\* when c_server.B # C0 - C1, and Ok with key shares otherwise; so with the
\* peer's honest commitments any other share, and with the honest share any
\* other point as second commitment, gives ShareVerification.
C8_ShareCheck ==
    /\ Called(Finalize2) /\ CommitmentsDecode =>
          LET first == decompress(FirstCommitment)[1]
              second == decompress(SecondCommitment)[1]
              committed == IF ByClient THEN PointAdd(first, second)
                                       ELSE PointSub(first, second)
          IN  /\ call[1].ret = Err("ShareVerification") <=> mul_base(PeerShare) # committed
              /\ call[1].ret # Err("ShareVerification") =>
                    /\ IsOk(call[1].ret)
                    /\ DOMAIN call[1].ret.val =
                          {IF ByClient THEN "p_client" ELSE "p_server",
                           "P_client", "P_server", "P_joint"}
    /\ Called(Finalize2) /\ call[1].sent # None =>
          LET sent_1 == call[1].sent[1][1]
              sent_2 == call[1].sent[1][2]
              sent_second == IF ByClient THEN sent_1.S1 ELSE sent_1.C1
          IN  /\ call[1].peer_message_1 = sent_1 /\ call[1].peer_message_2 = sent_2 =>
                    IsOk(call[1].ret)
              /\ call[1].peer_message_1 = sent_1 /\ call[1].peer_message_2 # sent_2 =>
                    call[1].ret = Err("ShareVerification")
              /\ (/\ call[1].peer_message_2 = sent_2
                  /\ decompress(SecondCommitment) # None
                  /\ decompress(SecondCommitment) # decompress(sent_second))
                 => call[1].ret = Err("ShareVerification")

C8_Witness ==
    /\ Called({"ServerDkg::finalize_second_round"})
    /\ call[1].sent # None
    /\ call[1].peer_message_2 = call[1].sent[1][2]
    /\ decompress(SecondCommitment) # None
    /\ decompress(SecondCommitment) # decompress(call[1].sent[1][1].C1)
    /\ ~InSubgroup(decompress(SecondCommitment)[1])
    /\ call[1].ret = Err("ShareVerification")

Combine == {"ClientSign::combine_sigs", "ServerSign::combine_sigs"}
PeerPartialSignature ==
    IF ByClient THEN call[1].server_message_2.z_server ELSE call[1].client_message_2.z_client
CombineArgumentsDecode ==
    /\ decompress(call[1].client_message_1.D_client) # None
    /\ decompress(call[1].client_message_1.E_client) # None
    /\ decompress(call[1].server_message_1.D_server) # None
    /\ decompress(call[1].server_message_1.E_server) # None
    /\ decompress(call[1].P_peer) # None

\* C9: with decodable nonce commitments and peer public share the Client's
\* combine_sigs returns PartialSignatureVerification exactly when
\* z_server.B # R_server - c.P_server, the Server's exactly when
\* z_client.B # R_client + c.P_client; so after honest DKG and signing
\* rounds the peer's unmodified scalar is accepted and any other rejected.
C9_PartialSignatureCheck ==
    /\ Called(Combine) /\ CombineArgumentsDecode =>
          LET m == call[1].message
              cm == call[1].client_message_1
              sm == call[1].server_message_1
              rho_client == from_hash(ClientTag \o m \o cm.D_client \o cm.E_client)
              rho_server == from_hash(ServerTag \o m \o sm.D_server \o sm.E_server)
              R_client == PointAdd(decompress(cm.D_client)[1],
                                   PointMul(decompress(cm.E_client)[1], rho_client))
              R_server == PointAdd(decompress(sm.D_server)[1],
                                   PointMul(decompress(sm.E_server)[1], rho_server))
              c == from_hash(compress(PointAdd(R_client, R_server)) \o m \o call[1].P_joint)
              P_peer == decompress(call[1].P_peer)[1]
              expected == IF ByClient THEN PointSub(R_server, PointMul(P_peer, c))
                                      ELSE PointAdd(R_client, PointMul(P_peer, c))
          IN  /\ call[1].ret = Err("PartialSignatureVerification")
                    <=> mul_base(PeerPartialSignature) # expected
              /\ call[1].ret # Err("PartialSignatureVerification") => IsOk(call[1].ret)
    /\ Called(Combine) /\ call[1].sent # None =>
          LET sent_z == IF ByClient THEN call[1].sent[1].z_server
                                    ELSE call[1].sent[1].z_client
          IN  /\ PeerPartialSignature = sent_z => IsOk(call[1].ret)
              /\ PeerPartialSignature # sent_z =>
                    call[1].ret = Err("PartialSignatureVerification")

C9_Witness ==
    /\ Called({"ClientSign::combine_sigs"})
    /\ call[1].sent # None
    /\ PeerPartialSignature # call[1].sent[1].z_server
    /\ call[1].P_peer # compress(Identity)
    /\ call[1].message = <<>>
    /\ call[1].ret = Err("PartialSignatureVerification")

\* C10: ServerDkg::finalize_first_round returns Err(Decompression) whenever
\* the Client's C0 is not a valid compressed point, whatever C1, R and mu.
C10_ServerDecompression ==
    Called({"ServerDkg::finalize_first_round"})
       /\ decompress(call[1].peer_message_1.C0) = None =>
          call[1].ret = Err("Decompression")

\* C11: ClientDkg::finalize_first_round returns Err(Decompression) whenever
\* the Server's S0 is not a valid compressed point, whatever S1, R and mu; so
\* ProofOfKnowledge is never returned for an undecodable S0.
C11_ClientDecompression ==
    Called({"ClientDkg::finalize_first_round"})
       /\ decompress(call[1].peer_message_1.S0) = None =>
          /\ call[1].ret = Err("Decompression")
          /\ call[1].ret # Err("ProofOfKnowledge")

\* an undecodable S0 together with an undecodable R and a non-zero mu
C11_Witness ==
    /\ Called({"ClientDkg::finalize_first_round"})
    /\ call[1].peer_message_1.S0 = InvalidEncoding
    /\ call[1].peer_message_1.R = InvalidEncoding
    /\ call[1].peer_message_1.S1 = compress(ED25519_BASEPOINT)
    /\ call[1].peer_message_1.mu # 0
    /\ call[1].ret = Err("Decompression")

\* C12: when a peer round-1 commitment (S0 or S1 for the Client, C0 or C1 for
\* the Server) is not a valid compressed point, finalize_second_round returns
\* Err(Decompression): the failure is a DkgError value, not an abort.
C12_Finalize2Decompression ==
    Called(Finalize2) /\ ~CommitmentsDecode => call[1].ret = Err("Decompression")

SecondRound == {"ClientSign::second_round", "ServerSign::second_round"}
NonceCommitmentsDecode ==
    /\ decompress(call[1].client_message_1.D_client) # None
    /\ decompress(call[1].client_message_1.E_client) # None
    /\ decompress(call[1].server_message_1.D_server) # None
    /\ decompress(call[1].server_message_1.E_server) # None

\* C13: second_round on either side returns Err(Decompression) whenever one
\* of D_client, E_client, D_server, E_server fails to decode; combine_sigs on
\* either side returns Err(Decompression) whenever one of those four or the
\* peer public share fails to decode, and PartialSignatureVerification only
\* when all five decode.
C13_SignDecompression ==
    /\ Called(SecondRound) /\ ~NonceCommitmentsDecode =>
          call[1].ret = Err("Decompression")
    /\ Called(Combine) /\ ~CombineArgumentsDecode =>
          call[1].ret = Err("Decompression")
    /\ Called(Combine) /\ call[1].ret = Err("PartialSignatureVerification") =>
          CombineArgumentsDecode

\* the four nonce commitments decode, the peer public share does not
C13_Witness ==
    /\ Called({"ClientSign::combine_sigs"})
    /\ NonceCommitmentsDecode
    /\ decompress(call[1].P_peer) = None
    /\ call[1].server_message_1.E_server = NonCanonicalIdentity
    /\ call[1].ret = Err("Decompression")

\* ------------------------------------------------------------------------
\* Properties of a party's session (SpecSession)
\* ------------------------------------------------------------------------
\* the party went on from finalize_first_round to finalize_second_round
WentOn ==
    /\ Len(call) = 2
    /\ call[1].fn \in Finalize1
    /\ call[2].fn \in Finalize2

\* C14: once a party's finalize_first_round has returned an error for the
\* peer's round-1 message, finalize_second_round given the same round-1
\* message does not return Ok: the party obtains no key shares.
C14_AbortAfterError ==
    WentOn /\ call[1].ret.tag = "Err"
           /\ call[2].peer_message_1 = call[1].peer_message_1 =>
       ~IsOk(call[2].ret)

\* ------------------------------------------------------------------------
\* Properties of signing sessions over the same shares (SpecReuse)
\* ------------------------------------------------------------------------
\* every call the current session has made returned Ok
SessionOk ==
    /\ sign.client_r2 # None => IsOk(sign.client_r2[1])
    /\ sign.server_r2 # None => IsOk(sign.server_r2[1])
    /\ sign.client_comb # None => IsOk(sign.client_comb[1])
    /\ sign.server_comb # None => IsOk(sign.server_comb[1])

\* C16: no step of a signing session changes the key shares, and after any
\* number of sessions over them, whatever their outcome, every call of a
\* session whose messages the transport leaves alone returns Ok.
C16_KeyShareReuse ==
    /\ [][keys # None => keys' = keys]_vars
    /\ [](keys # None /\ ~sessions.tampered => SessionOk)

\* sessions ended in Ok, in Decompression and in
\* PartialSignatureVerification, and both parties of the next one combined
C16_Witness ==
    /\ sessions.ended = {"Ok", "Decompression", "PartialSignatureVerification"}
    /\ ~sessions.tampered
    /\ sign.client_comb # None /\ IsOk(sign.client_comb[1])
    /\ sign.server_comb # None /\ IsOk(sign.server_comb[1])
    /\ sign.message[1] # <<>>

\* the party called the same function twice
Repeated == Len(call) = 2 /\ call[2].fn = call[1].fn

DeclaredFields ==
    LET m == call[1].message
    IN  CASE call[1].fn = "Display for DkgClientRound1" -> <<m.C0, m.C1, m.R, m.mu>>
          [] call[1].fn = "Display for DkgServerRound1" -> <<m.S0, m.S1, m.R, m.mu>>
          [] call[1].fn = "Display for DkgClientRound2" -> <<m.c_server>>
          [] call[1].fn = "Display for DkgServerRound2" -> <<m.s_client>>
          [] call[1].fn = "Display for SignClientRound1" -> <<m.D_client, m.E_client>>
          [] call[1].fn = "Display for SignServerRound1" -> <<m.D_server, m.E_server>>
          [] call[1].fn = "Display for SignClientRound2" -> <<m.z_client>>
          [] call[1].fn = "Display for SignServerRound2" -> <<m.z_server>>

\* the position of a character in the standard alphabet, from 0
AlphabetIndex(ch) == (CHOOSE i \in 1..64 : Alphabet[i] = ch) - 1

\* standard base64 decoding of a padded text: four characters give three
\* bytes, fewer when the group ends in one or two '='
RECURSIVE Base64Decode(_)
Base64Decode(text) ==
    IF Len(text) = 0 THEN <<>>
    ELSE LET a == AlphabetIndex(text[1])
             b == AlphabetIndex(text[2])
             first == <<a * 4 + b \div 16>>
         IN  IF text[3] = PadChar THEN first
             ELSE LET c == AlphabetIndex(text[3])
                      second == <<(b % 16) * 16 + c \div 4>>
                  IN  IF text[4] = PadChar THEN first \o second
                      ELSE first \o second \o <<(c % 4) * 64 + AlphabetIndex(text[4])>>
                           \o Base64Decode(SubSeq(text, 5, Len(text)))

\* a padded block of the standard alphabet: 43 characters and one '='
StandardBlock(block) ==
    /\ Len(block) = 44
    /\ \A i \in 1..43 : \E j \in 1..64 : block[i] = Alphabet[j]
    /\ block[44] = PadChar

\* C19: the text of every message type is, in declared field order and
\* without separators, one padded standard base64 block of 44 characters per
\* 32-byte field (4 for DKG round 1, 2 for signing round 1, 1 for each round
\* 2), and decoding the blocks gives back the field bytes in order.
C19_DisplayRoundTrip ==
    call # None =>
       LET fields == DeclaredFields
           text == call[1].text
           block(i) == SubSeq(text, 44 * (i - 1) + 1, 44 * i)
       IN  /\ Len(fields) = CASE call[1].fn \in {"Display for DkgClientRound1",
                                                  "Display for DkgServerRound1"} -> 4
                               [] call[1].fn \in {"Display for SignClientRound1",
                                                  "Display for SignServerRound1"} -> 2
                               [] OTHER -> 1
           /\ Len(text) = 44 * Len(fields)
           /\ \A i \in 1..Len(fields) :
                 /\ Len(fields[i]) = 32
                 /\ StandardBlock(block(i))
                 /\ Base64Decode(block(i)) = fields[i]

\* a DKG round-1 message whose four fields all differ
C19_Witness ==
    /\ call # None
    /\ call[1].fn = "Display for DkgServerRound1"
    /\ Cardinality({DeclaredFields[i] : i \in 1..4}) = 4
    /\ Len(call[1].text) = 176
    /\ call[1].text[1] = "/"

\* the recorded round-1 message with its second commitment (S1 / C1) replaced
WithSecondCommitment(rec, X) ==
    IF rec.fn = "ClientDkg::finalize_first_round"
    THEN [rec EXCEPT !.peer_message_1.S1 = X]
    ELSE [rec EXCEPT !.peer_message_1.C1 = X]

\* C21: finalize_first_round on either side returns the same for any two
\* peer round-1 messages that differ only in the second commitment: every
\* call returns what the call on the message with an undecodable second
\* commitment returns, and what the call with a decodable one returns.
C21_SecondCommitmentUnbound ==
    Len(call) = 1 /\ call[1].fn \in Finalize1 =>
       /\ Apply(WithSecondCommitment(call[1], InvalidEncoding)) = call[1].ret
       /\ Apply(WithSecondCommitment(call[1], compress(ED25519_BASEPOINT))) = call[1].ret

\* a proof accepted although the second commitment decodes to no point
C21_Witness ==
    /\ Len(call) = 1
    /\ call[1].fn = "ClientDkg::finalize_first_round"
    /\ call[1].peer_message_1.S1 = InvalidEncoding
    /\ call[1].peer_message_1.S0 # compress(Identity)
    /\ IsOk(call[1].ret)

\* ------------------------------------------------------------------------
\* Properties of the binding-factor hash inputs (SpecHash)
\* ------------------------------------------------------------------------
\* C22: tag || m || D || E is an injective function of (tag, m, D, E): the
\* bytes hashed for one (tag, m, D, E) are the bytes hashed for another only
\* when the two are equal; in particular the Client's and the Server's input
\* are never the same bytes, for equal or different messages.
C22_BindingInputInjective ==
    call # None =>
       \A m \in HashMessages, D \in HashFields, E \in HashFields :
          /\ BindingClientInput(m, [D_client |-> D, E_client |-> E]) = call[1].input =>
                call[1].fn = "rho_client"
                   /\ m = call[1].message /\ D = call[1].D /\ E = call[1].E
          /\ BindingServerInput(m, [D_server |-> D, E_server |-> E]) = call[1].input =>
                call[1].fn = "rho_server"
                   /\ m = call[1].message /\ D = call[1].D /\ E = call[1].E

\* a Server input whose message starts with the first byte of the Client's
\* tag and ends with the byte of a compressed point
C22_Witness ==
    /\ call # None
    /\ call[1].fn = "rho_server"
    /\ Len(call[1].message) = 2
    /\ call[1].message[1] = 99 /\ call[1].message[2] = 0
    /\ call[1].D = compress(Identity) /\ call[1].E = InvalidEncoding
    /\ Len(call[1].input) = 10

\* ------------------------------------------------------------------------
\* Properties of a reflected round-1 message (SpecReflect)
\* ------------------------------------------------------------------------
\* the call after start_first_round is the same party's finalize_first_round
Reflected ==
    /\ Len(call) = 2
    /\ \/ call[1].fn = "ClientDkg::start_first_round"
             /\ call[2].fn = "ClientDkg::finalize_first_round"
       \/ call[1].fn = "ServerDkg::start_first_round"
             /\ call[2].fn = "ServerDkg::finalize_first_round"

\* the challenge of the proof in a produced message under a tag; the first
\* two fields of the record are the first commitment and R on either side
ChallengeUnder(tag, first_commitment, R) ==
    from_hash(tag \o as_bytes(first_commitment) \o as_bytes(R))
ReflectedFirstCommitment ==
    IF call[1].fn = "ClientDkg::start_first_round" THEN call[1].ret.C0 ELSE call[1].ret.S0

\* C23: a message of start_first_round with a nonzero first coefficient that
\* comes back to the finalize_first_round of the party that produced it is
\* rejected with ProofOfKnowledge whenever the challenge under the "server"
\* tag differs from the one under the "client" tag, on either side.
C23_ReflectionRejected ==
    (/\ Reflected
     /\ call[1].own.first # 0
     /\ ChallengeUnder(ServerTag, ReflectedFirstCommitment, call[1].ret.R)
           # ChallengeUnder(ClientTag, ReflectedFirstCommitment, call[1].ret.R))
       => call[2].ret = Err("ProofOfKnowledge")

C23_Witness ==
    /\ Reflected
    /\ call[1].fn = "ClientDkg::start_first_round"
    /\ call[1].own.first # 0
    /\ call[1].own.k # 0
    /\ ChallengeUnder(ServerTag, call[1].ret.C0, call[1].ret.R)
          # ChallengeUnder(ClientTag, call[1].ret.C0, call[1].ret.R)
    /\ call[2].ret = Err("ProofOfKnowledge")

\* ------------------------------------------------------------------------
\* Properties of the two parties' combine_sigs (SpecCombine)
\* ------------------------------------------------------------------------
\* two results that are both Ok, or the same error
SameOutcome(a, b) ==
    /\ a.tag = b.tag
    /\ a.tag # "Ok" => a = b

\* a recorded combine_sigs with the caller's own round-2 message replaced
WithOwnPartial(rec, z) ==
    IF rec.fn = "ClientSign::combine_sigs"
    THEN [rec EXCEPT !.client_message_2.z_client = z]
    ELSE [rec EXCEPT !.server_message_2.z_server = z]

\* the Client's and the Server's call among the recorded ones
CombineOf(party) ==
    IF call[1].fn = party THEN call[1] ELSE call[2]

\* C24: combine_sigs verifies only the peer's partial signature.  Whether a
\* party's combine_sigs returns Ok, and which error otherwise, is the same for
\* every value of its own round-2 message; and when z_client has been altered
\* and z_server is the honest one, the Client's combine_sigs returns Ok with
\* z_joint = altered z_client + z_server while the Server's returns
\* PartialSignatureVerification.
C24_OnlyPeerPartialVerified ==
    /\ \A i \in 1..Len(call) :
          \A z \in Scalar : SameOutcome(Apply(WithOwnPartial(call[i], z)), call[i].ret)
    /\ Len(call) = 2 =>
          \A s \in {call[1].session} :
             (/\ s.client_message_2 # s.honest.client_message_2
              /\ s.server_message_2 = s.honest.server_message_2)
                =>
                /\ CombineOf("ClientSign::combine_sigs").ret.tag = "Ok"
                /\ CombineOf("ClientSign::combine_sigs").ret.val.z_joint
                      = ScalarAdd(s.client_message_2.z_client, s.server_message_2.z_server)
                /\ CombineOf("ServerSign::combine_sigs").ret
                      = Err("PartialSignatureVerification")

C24_Witness ==
    /\ Len(call) = 2
    /\ call[1].session.client_message_2 # call[1].session.honest.client_message_2
    /\ call[1].session.server_message_2 = call[1].session.honest.server_message_2
    /\ call[1].fn = "ClientSign::combine_sigs"
    /\ call[1].ret.tag = "Ok"
    /\ call[1].ret.val.z_joint # 0
    /\ call[2].ret = Err("PartialSignatureVerification")

\* ------------------------------------------------------------------------
\* R of a round-1 DKG message (SpecSession)
\* ------------------------------------------------------------------------
\* C25: R of a round-1 DKG message is compared as bytes and never decoded:
\* when the first commitment decodes, finalize_first_round on a message whose
\* R does not decode returns ProofOfKnowledge, not Decompression, on either
\* side.
C25_InvalidRIsProofOfKnowledge ==
    (/\ Len(call) = 1
     /\ call[1].fn \in Finalize1
     /\ call[1].peer_message_1.R = InvalidEncoding
     /\ decompress(IF call[1].fn = "ClientDkg::finalize_first_round"
                   THEN call[1].peer_message_1.S0
                   ELSE call[1].peer_message_1.C0) # None)
       => call[1].ret = Err("ProofOfKnowledge")

C25_Witness ==
    /\ Len(call) = 1
    /\ call[1].fn = "ServerDkg::finalize_first_round"
    /\ call[1].peer_message_1.R = InvalidEncoding
    /\ call[1].peer_message_1.C0 = compress(ED25519_BASEPOINT)
    /\ call[1].peer_message_1.mu # 0
    /\ call[1].ret = Err("ProofOfKnowledge")

\* ------------------------------------------------------------------------
\* Completion of the honest run (SpecLive)
\* ------------------------------------------------------------------------
\* both parties hold key shares and both combine_sigs have returned Ok
Completed ==
    /\ keys # None
    /\ sign.client_comb # None /\ sign.server_comb # None
    /\ IsOk(sign.client_comb[1]) /\ IsOk(sign.server_comb[1])

\* C26: an honest run of the DKG followed by one signing session, in which a
\* call is eventually made whenever one can be made, always reaches the state
\* where both parties hold key shares and both combine_sigs have returned Ok.
\* A run may stop only where no call can be made, so no state before that one
\* is stuck; every call of the run is one step, enabled by its arguments
\* alone.
C26_Completion == <>Completed

C26_Witness ==
    /\ Completed
    /\ keys[1].p_client # 0 /\ keys[1].p_server # 0
    /\ sign.client_comb[1].val.z_joint # 0
    /\ ~ENABLED Next

====
